---------------------------- MODULE Spec2Model ----------------------------
(***************************************************************************)
(* Model of the SwapLiT indexing and routing engine.                       *)
(*                                                                         *)
(*   - the routing server (Ethereum/Indexer/src/server.ts): buildTokenGraph,*)
(*     findAllPathsBFS, findOptimalPath, findAllPaths, estimateMultiHopGas; *)
(*   - the pool registry indexer (the indexer script): main, the           *)
(*     PairCreated handler and the Swap/Mint/Burn handlers installed by    *)
(*     attachPairListener;                                                 *)
(*   - the relational store (the migration): the Token, Pool, Liquidity    *)
(*     and Swap tables with their unique indexes and foreign keys.         *)
(*                                                                         *)
(* Token addresses are small numbers, compared as the factory compares     *)
(* addresses.  A table is the sequence of its rows in insertion            *)
(* order; a row's id is its SERIAL primary key.                            *)
(***************************************************************************)
EXTENDS Integers, Sequences, FiniteSets, TLC

VARIABLES
    tokens,      \* table "Token": rows [id, address, symbol]
    pools,       \* table "Pool": rows [id, address, tokenAId, tokenBId]
    req,         \* the routing request being served
    rpc,         \* position of the routing request
    graph,       \* findOptimalPath/findAllPaths: const graph
    queue,       \* findAllPathsBFS: const queue
    visited,     \* findAllPathsBFS: const visited
    found,       \* findAllPathsBFS: const paths
    evalIdx,     \* findOptimalPath: position of "for (const path of allPaths)"
    bestPath,    \* findOptimalPath: let bestPath (<<>> is null)
    bestOutput,  \* findOptimalPath: let bestOutput
    quoted,      \* history: outcome of router.getAmountsOut per candidate path
    result,      \* the value the request returns
    liquidity,   \* table "Liquidity": rows [id, poolId, provider, amountA, amountB]
    swaps,       \* table "Swap": rows [id, poolId, trader, amountIn, amountOut,
                 \*                     tokenIn, tokenOut]
    alive,       \* the indexer process is running
    mainPc,      \* position of main()
    bootPools,   \* main: const pools = await prisma.pool.findMany()
    listeners,   \* the listener sets attachPairListener has installed, each
                 \* named by the pair address it listens to
    chainLog,    \* the Swap/Mint/Burn events the pairs have emitted
    handlers,    \* the event-handler invocations, running and ended
    reserves,    \* AMM: reserve0, reserve1 of each pair the factory has created
    calls,       \* the contract calls made, running and ended
    factory      \* AMMFactory: its storage, getPair and allPairs

routeVars == <<req, rpc, graph, queue, visited, found, evalIdx, bestPath,
               bestOutput, quoted, result>>
storeVars == <<tokens, pools, liquidity, swaps>>
indexerVars == <<alive, mainPc, bootPools, listeners, chainLog, handlers>>
quoteVars == <<reserves, calls, factory>>
vars == <<tokens, pools, liquidity, swaps, req, rpc, graph, queue, visited,
          found, evalIdx, bestPath, bestOutput, quoted, result, alive, mainPc,
          bootPools, listeners, chainLog, handlers, reserves, calls, factory>>

-----------------------------------------------------------------------------
(* Bounds *)

\* The token addresses, ordered as the factory orders addresses.
Tokens == 1..4
\* Largest number of Pool rows a routing request reads.
MaxPools == 3
\* Largest final amount a chained quote returns.
MaxOut == 2
\* Largest integer supplied as the maxHops query parameter.
MaxHopsQuery == 5
\* Largest number of event deliveries the indexer handles in one run.
MaxHandlers == 2
\* Largest number of deliveries of one chain event.
MaxDeliveries == 2
\* Largest reserve a pair holds of one token.
MaxReserve == 2
\* Largest amount offered to a chained quote.
MaxAmountIn == 3
\* Largest value of the contracts' unsigned integers (uint256, scaled down):
\* arithmetic that would exceed it reverts.
MaxUint == 4
\* Bits of the significand of a JavaScript number (53, scaled down): an
\* integer that needs more is rounded.
MantissaBits == 3
\* Largest number of Liquidity rows, and of Swap rows, a pool request reads.
MaxRows == 2

\* A factory pair: token0 < token1, token0 # token1.
TokenPairs == {pr \in Tokens \X Tokens : pr[1] < pr[2]}

\* No pair contract is looked at.
NoPairs == [pr \in {} |-> <<0, 0>>]

\* The token addresses createPair is called with.
FactoryTokens == 1..3

\* address(0)
ZeroAddress == 0

\* The storage of a factory just deployed: every getPair[a][b] is
\* address(0) and allPairs is empty.
NewFactory ==
    [getPair |-> [a \in FactoryTokens |-> [b \in FactoryTokens |-> ZeroAddress]],
     allPairs |-> <<>>]

-----------------------------------------------------------------------------
(* Sequence helpers *)

Last(s) == s[Len(s)]

Includes(s, x) == \E i \in 1..Len(s) : s[i] = x

Range(s) == {s[i] : i \in 1..Len(s)}

Min(a, b) == IF a <= b THEN a ELSE b


-----------------------------------------------------------------------------
(* Storage reads used by the routing server *)

\* The Token row a Pool row's foreign key names.
TokenById(id) == CHOOSE t \in Range(tokens) : t.id = id

\* prisma.pool.findMany({ include: { tokenA: true, tokenB: true } }): every
\* Pool row, in table order, joined with its two Token rows.
findManyPools ==
    [i \in 1..Len(pools) |->
        [id |-> pools[i].id, address |-> pools[i].address,
         tokenA |-> TokenById(pools[i].tokenAId),
         tokenB |-> TokenById(pools[i].tokenBId)]]

-----------------------------------------------------------------------------
(* buildTokenGraph *)

\* graph.get(node) || []
Neighbors(g, node) == IF node \in DOMAIN g THEN g[node] ELSE <<>>

\* if (!graph.has(k)) graph.set(k, []); graph.get(k).push(v)
GraphPush(g, k, v) ==
    [n \in (DOMAIN g) \cup {k} |-> IF n = k THEN Append(Neighbors(g, k), v) ELSE g[n]]

\* One iteration of "for (const pool of pools)".
GraphAddPool(g, pool) ==
    GraphPush(GraphPush(g, pool.tokenA.address, pool.tokenB.address),
              pool.tokenB.address, pool.tokenA.address)

RECURSIVE GraphFold(_, _, _)
GraphFold(g, ps, i) ==
    IF i > Len(ps) THEN g ELSE GraphFold(GraphAddPool(g, ps[i]), ps, i + 1)

\* The empty Map.
EmptyGraph == [n \in {} |-> <<>>]

buildTokenGraph(ps) == GraphFold(EmptyGraph, ps, 1)

-----------------------------------------------------------------------------
(* findAllPathsBFS *)

\* currentPath.join(',')
RECURSIVE Join(_)
Join(path) ==
    IF Len(path) = 0 THEN ""
    ELSE IF Len(path) = 1 THEN ToString(path[1])
    ELSE ToString(path[1]) \o "," \o Join(Tail(path))

pathKey(currentPath) == Join(currentPath)

\* Mutant of TooLong: the bound counts hops where it should count tokens.
TooLongOffByOne(currentPath, maxDepth) == Len(currentPath) > maxDepth

\* if (currentPath.length > maxDepth + 1) continue;
TooLong(currentPath, maxDepth) == Len(currentPath) > maxDepth + 1

\* Mutant of FoundDestination: the length test is missing.
FoundDestinationAnyLength(currentPath, end) == Last(currentPath) = end

\* if (currentNode === end && currentPath.length > 1)
FoundDestination(currentPath, end) ==
    Last(currentPath) = end /\ Len(currentPath) > 1

\* Mutant of CanExtend: no cycle prevention.
CanExtendAlways(currentPath, neighbor) == TRUE

\* if (!currentPath.includes(neighbor))
CanExtend(currentPath, neighbor) == ~Includes(currentPath, neighbor)

\* Mutant of PushNeighbors: the extensions are put at the front of the queue
\* (unshift), which makes the search depth-first.
RECURSIVE PushNeighborsFront(_, _, _, _)
PushNeighborsFront(q, currentPath, neighbors, i) ==
    IF i > Len(neighbors) THEN q
    ELSE PushNeighborsFront(
            IF ~Includes(currentPath, neighbors[i])
            THEN <<Append(currentPath, neighbors[i])>> \o q
            ELSE q,
            currentPath, neighbors, i + 1)

\* for (const neighbor of neighbors) ... queue.push([...currentPath, neighbor])
RECURSIVE PushNeighbors(_, _, _, _)
PushNeighbors(q, currentPath, neighbors, i) ==
    IF i > Len(neighbors) THEN q
    ELSE PushNeighbors(
            IF CanExtend(currentPath, neighbors[i])
            THEN Append(q, Append(currentPath, neighbors[i]))
            ELSE q,
            currentPath, neighbors, i + 1)

\* Mutant of BfsIteration: the path is read from the head of the queue and
\* not taken off it when it is too long.
BfsIterationKeepsTooLong(g, end, maxDepth, st) ==
    LET currentPath == Head(st.queue)
        rest == Tail(st.queue)
        currentNode == Last(currentPath)
    IN  IF TooLong(currentPath, maxDepth)
        THEN st
        ELSE IF FoundDestination(currentPath, end)
        THEN [st EXCEPT !.queue = rest, !.paths = Append(st.paths, currentPath)]
        ELSE IF pathKey(currentPath) \in st.visited
        THEN [st EXCEPT !.queue = rest]
        ELSE [queue |-> PushNeighbors(rest, currentPath,
                                      Neighbors(g, currentNode), 1),
              visited |-> st.visited \cup {pathKey(currentPath)},
              paths |-> st.paths]

\* One iteration of "while (queue.length > 0)": the loop state after it.
BfsIteration(g, end, maxDepth, st) ==
    LET currentPath == Head(st.queue)
        rest == Tail(st.queue)
        currentNode == Last(currentPath)
    IN  IF TooLong(currentPath, maxDepth)
        THEN [st EXCEPT !.queue = rest]
        ELSE IF FoundDestination(currentPath, end)
        THEN [st EXCEPT !.queue = rest, !.paths = Append(st.paths, currentPath)]
        ELSE IF pathKey(currentPath) \in st.visited
        THEN [st EXCEPT !.queue = rest]
        ELSE [queue |-> PushNeighbors(rest, currentPath,
                                      Neighbors(g, currentNode), 1),
              visited |-> st.visited \cup {pathKey(currentPath)},
              paths |-> st.paths]

-----------------------------------------------------------------------------
(* estimateMultiHopGas *)

baseGas == 60000
gasPerHop == 120000

\* Mutant of estimateMultiHopGas: the tokens are counted, not the hops.
estimateMultiHopGasPerToken(path, amountIn) == baseGas + gasPerHop * Len(path)

\* return baseGas + (gasPerHop * hops), hops = BigInt(path.length - 1).  The
\* try block cannot throw, so the fallback of the catch is never returned.
estimateMultiHopGas(path, amountIn) == baseGas + gasPerHop * (Len(path) - 1)

-----------------------------------------------------------------------------
(* The /all-paths hop bound *)

\* parseInt(req.query.maxHops) is <<n>> for a number n and <<>> for NaN (an
\* absent or non-numeric value).
NaN == <<>>

\* Math.min(parseInt(req.query.maxHops) || 3, 4): NaN and 0 are falsy.
ParseMaxHops(q) == IF q = NaN \/ q[1] = 0 THEN 3 ELSE Min(q[1], 4)

\* findAllPathsBFS(graph, tokenA, tokenB, 4) in findOptimalPath.
OptimalMaxDepth == 4

\* The hop bound a request hands to findAllPathsBFS.
MaxDepthOf(r) == IF r.kind = "optimal" THEN OptimalMaxDepth ELSE ParseMaxHops(r.maxHops)

-----------------------------------------------------------------------------
(* The routing requests: GET /optimal-path (findOptimalPath) and            *)
(* GET /all-paths (findAllPaths)                                            *)

\* A route entry: { path, expectedOutput, hops, gasEstimate }.
RouteEntry(path, output, amountIn) ==
    [path |-> path, expectedOutput |-> output, hops |-> Len(path) - 1,
     gasEstimate |-> estimateMultiHopGas(path, amountIn)]

\* Mutant of IsBetter: the comparison is the wrong way round.
IsBetterWhenSmaller(output, best) == output < best \/ best = 0

\* Mutant of IsBetter: the comparison is missing, the last quoted path wins.
IsBetterAlways(output, best) == TRUE

\* if (output > bestOutput): a bigint against the decimal string of a bigint,
\* which JavaScript compares by value.
IsBetter(output, best) == output > best

\* Mutant of IsDirectPath: the hop count is taken for the token count.
IsDirectPathOneToken(path) == Len(path) = 1

\* if (path.length === 2)
IsDirectPath(path) == Len(path) = 2

\* const paths = { direct: null, optimal: null, allPaths: [] } (<<>> is null).
EmptyResult == [direct |-> <<>>, optimal |-> <<>>, allPaths |-> <<>>]

\* The pools are read, the graph is built and the search is set up.
RouteStart ==
    /\ rpc = "start"
    /\ graph' = buildTokenGraph(findManyPools)
    /\ queue' = <<<<req.tokenA>>>>
    /\ visited' = {}
    /\ found' = <<>>
    /\ rpc' = "bfs"
    /\ UNCHANGED <<req, evalIdx, bestPath, bestOutput, quoted, result>>

\* One iteration of the while loop of findAllPathsBFS.
BfsStep ==
    /\ rpc = "bfs"
    /\ queue # <<>>
    /\ LET st == BfsIteration(graph, req.tokenB, MaxDepthOf(req),
                              [queue |-> queue, visited |-> visited, paths |-> found])
       IN  /\ queue' = st.queue
           /\ visited' = st.visited
           /\ found' = st.paths
    /\ UNCHANGED <<req, rpc, graph, evalIdx, bestPath, bestOutput, quoted, result>>

\* findAllPaths: return allPaths.map(path => ({ path, hops, tokens })).
AllPathsReturn ==
    /\ rpc = "bfs"
    /\ queue = <<>>
    /\ req.kind = "all"
    /\ result' = [paths |-> [i \in 1..Len(found) |->
                     [path |-> found[i], hops |-> Len(found[i]) - 1,
                      tokens |-> Len(found[i])]]]
    /\ rpc' = "done"
    /\ UNCHANGED <<req, graph, queue, visited, found, evalIdx, bestPath,
                   bestOutput, quoted>>

\* Mutant of OptimalNoPaths: an empty enumeration is raised as an error.
OptimalNoPathsThrows ==
    /\ rpc = "bfs"
    /\ queue = <<>>
    /\ req.kind = "optimal"
    /\ Len(found) = 0
    /\ rpc' = "error"
    /\ UNCHANGED <<req, graph, queue, visited, found, evalIdx, bestPath,
                   bestOutput, quoted, result>>

\* findOptimalPath: if (allPaths.length === 0) return paths;
OptimalNoPaths ==
    /\ rpc = "bfs"
    /\ queue = <<>>
    /\ req.kind = "optimal"
    /\ Len(found) = 0
    /\ result' = EmptyResult
    /\ rpc' = "done"
    /\ UNCHANGED <<req, graph, queue, visited, found, evalIdx, bestPath,
                   bestOutput, quoted>>

\* findOptimalPath: let bestPath = null; let bestOutput = "0"; then the loop.
OptimalBeginEval ==
    /\ rpc = "bfs"
    /\ queue = <<>>
    /\ req.kind = "optimal"
    /\ Len(found) > 0
    /\ bestPath' = <<>>
    /\ bestOutput' = 0
    /\ evalIdx' = 1
    /\ result' = EmptyResult
    /\ rpc' = "eval"
    /\ UNCHANGED <<req, graph, queue, visited, found, quoted>>

\* Mutant of EvalQuoteOk: bestOutput follows every quote, bestPath only the
\* better ones.
EvalQuoteOkTracksLast(output) ==
    /\ rpc = "eval"
    /\ evalIdx <= Len(found)
    /\ LET path == found[evalIdx]
           entry == RouteEntry(path, output, req.amount)
       IN  /\ result' = [result EXCEPT
                            !.allPaths = Append(@, entry),
                            !.direct = IF IsDirectPath(path) THEN <<entry>> ELSE @]
           /\ bestOutput' = output
           /\ bestPath' = IF IsBetter(output, bestOutput) THEN path ELSE bestPath
    /\ quoted' = Append(quoted, <<output>>)
    /\ evalIdx' = evalIdx + 1
    /\ UNCHANGED <<req, rpc, graph, queue, visited, found>>

\* One iteration of "for (const path of allPaths)" whose quote returns: the
\* router answers with the final amount `output`.
EvalQuoteOk(output) ==
    /\ rpc = "eval"
    /\ evalIdx <= Len(found)
    /\ LET path == found[evalIdx]
           entry == RouteEntry(path, output, req.amount)
       IN  /\ result' = [result EXCEPT
                            !.allPaths = Append(@, entry),
                            !.direct = IF IsDirectPath(path) THEN <<entry>> ELSE @]
           /\ bestOutput' = IF IsBetter(output, bestOutput) THEN output ELSE bestOutput
           /\ bestPath' = IF IsBetter(output, bestOutput) THEN path ELSE bestPath
    /\ quoted' = Append(quoted, <<output>>)
    /\ evalIdx' = evalIdx + 1
    /\ UNCHANGED <<req, rpc, graph, queue, visited, found>>

\* Mutant of EvalQuoteFail: the quote's exception is not caught and the
\* request ends with an error.
EvalQuoteFailUncaught ==
    /\ rpc = "eval"
    /\ evalIdx <= Len(found)
    /\ quoted' = Append(quoted, <<>>)
    /\ rpc' = "error"
    /\ UNCHANGED <<req, graph, queue, visited, found, evalIdx, bestPath,
                   bestOutput, result>>

\* One iteration whose quote throws (a hop reverts): the catch logs and the
\* loop goes on.
EvalQuoteFail ==
    /\ rpc = "eval"
    /\ evalIdx <= Len(found)
    /\ quoted' = Append(quoted, <<>>)
    /\ evalIdx' = evalIdx + 1
    /\ UNCHANGED <<req, rpc, graph, queue, visited, found, bestPath, bestOutput,
                   result>>

\* After the loop: if (bestPath) paths.optimal = {...}; return paths.
OptimalReturn ==
    /\ rpc = "eval"
    /\ evalIdx > Len(found)
    /\ result' = [result EXCEPT
                     !.optimal = IF bestPath # <<>>
                                 THEN <<RouteEntry(bestPath, bestOutput, req.amount)>>
                                 ELSE @]
    /\ rpc' = "done"
    /\ UNCHANGED <<req, graph, queue, visited, found, evalIdx, bestPath,
                   bestOutput, quoted>>

-----------------------------------------------------------------------------
(* The routing specification: any stored pool set, any request *)

\* Pool rows for a sequence of factory pairs, the pool at position i having
\* address and id i.
PoolRows(prs) ==
    [i \in 1..Len(prs) |->
        [id |-> i, address |-> i, tokenAId |-> prs[i][1], tokenBId |-> prs[i][2]]]

\* Token rows of the tokens the pairs mention (a Token is created only with
\* a pool), the row of address a having id a.
TokenRows(prs) ==
    SelectSeq([a \in Tokens |-> [id |-> a, address |-> a, symbol |-> "TKN"]],
              LAMBDA t : \E i \in 1..Len(prs) : t.address \in {prs[i][1], prs[i][2]})

PoolSeqs == UNION {[1..n -> TokenPairs] : n \in 0..MaxPools}

QueryValues == {NaN} \cup {<<n>> : n \in -1..MaxHopsQuery}

\* What a client of /optimal-path sends as maxHops: nothing, or a bound of
\* one hop; the handler reads only amount from the query.
OptimalQueryValues == {NaN, <<1>>}

Requests ==
    {[kind |-> "optimal", tokenA |-> a, tokenB |-> b, maxHops |-> q, amount |-> 1] :
        a \in Tokens, b \in Tokens, q \in OptimalQueryValues}
    \cup
    {[kind |-> "all", tokenA |-> a, tokenB |-> b, maxHops |-> q, amount |-> 1] :
        a \in Tokens, b \in Tokens, q \in QueryValues}

RouteInit ==
    /\ \E prs \in PoolSeqs :
          /\ pools = PoolRows(prs)
          /\ tokens = TokenRows(prs)
    /\ req \in Requests
    /\ rpc = "start"
    /\ graph = EmptyGraph
    /\ queue = <<>>
    /\ visited = {}
    /\ found = <<>>
    /\ evalIdx = 0
    /\ bestPath = <<>>
    /\ bestOutput = 0
    /\ quoted = <<>>
    /\ result = EmptyResult
    /\ liquidity = <<>>
    /\ swaps = <<>>
    /\ alive = FALSE
    /\ mainPc = "start"
    /\ bootPools = <<>>
    /\ listeners = <<>>
    /\ chainLog = <<>>
    /\ handlers = {}
    /\ reserves = NoPairs
    /\ calls = <<>>
    /\ factory = NewFactory

RouteNext ==
    \/ RouteStart /\ UNCHANGED <<storeVars, indexerVars, quoteVars>>
    \/ BfsStep /\ UNCHANGED <<storeVars, indexerVars, quoteVars>>
    \/ AllPathsReturn /\ UNCHANGED <<storeVars, indexerVars, quoteVars>>
    \/ OptimalNoPaths /\ UNCHANGED <<storeVars, indexerVars, quoteVars>>
    \/ OptimalBeginEval /\ UNCHANGED <<storeVars, indexerVars, quoteVars>>
    \/ (\E output \in 0..MaxOut : EvalQuoteOk(output))
          /\ UNCHANGED <<storeVars, indexerVars, quoteVars>>
    \/ EvalQuoteFail /\ UNCHANGED <<storeVars, indexerVars, quoteVars>>
    \/ OptimalReturn /\ UNCHANGED <<storeVars, indexerVars, quoteVars>>

SpecRoute == RouteInit /\ [][RouteNext]_vars

-----------------------------------------------------------------------------
(* The enumeration specification: GET /all-paths alone, any stored pool set *)

\* One maxHops value for every hop bound /all-paths can hand to
\* findAllPathsBFS: 3 (absent), -1, 1, 2 and 4.
EnumerateQueryValues == {NaN, <<-1>>, <<1>>, <<2>>, <<4>>}

EnumerateRequests ==
    {[kind |-> "all", tokenA |-> a, tokenB |-> b, maxHops |-> q, amount |-> 1] :
        a \in Tokens, b \in Tokens, q \in EnumerateQueryValues}

EnumerateInit ==
    /\ \E prs \in PoolSeqs :
          /\ pools = PoolRows(prs)
          /\ tokens = TokenRows(prs)
    /\ req \in EnumerateRequests
    /\ rpc = "start"
    /\ graph = EmptyGraph
    /\ queue = <<>>
    /\ visited = {}
    /\ found = <<>>
    /\ evalIdx = 0
    /\ bestPath = <<>>
    /\ bestOutput = 0
    /\ quoted = <<>>
    /\ result = EmptyResult
    /\ liquidity = <<>>
    /\ swaps = <<>>
    /\ alive = FALSE
    /\ mainPc = "start"
    /\ bootPools = <<>>
    /\ listeners = <<>>
    /\ chainLog = <<>>
    /\ handlers = {}
    /\ reserves = NoPairs
    /\ calls = <<>>
    /\ factory = NewFactory

EnumerateNext ==
    \/ RouteStart /\ UNCHANGED <<storeVars, indexerVars, quoteVars>>
    \/ BfsStep /\ UNCHANGED <<storeVars, indexerVars, quoteVars>>
    \/ AllPathsReturn /\ UNCHANGED <<storeVars, indexerVars, quoteVars>>

\* findAllPathsBFS is synchronous code: its while loop is not suspended, so an
\* iteration that can run does run.
SpecEnumerate ==
    /\ EnumerateInit
    /\ [][EnumerateNext]_vars
    /\ WF_vars(BfsStep /\ UNCHANGED <<storeVars, indexerVars, quoteVars>>)

-----------------------------------------------------------------------------
(* Properties of the routing requests *)

NoRepeat(p) == \A i, j \in 1..Len(p) : p[i] = p[j] => i = j

\* Some stored pool joins tokens a and b.
Connected(a, b) ==
    \E i \in 1..Len(pools) :
        {TokenById(pools[i].tokenAId).address, TokenById(pools[i].tokenBId).address} = {a, b}

\* The simple paths from a to b of at most H + 1 tokens, read off the Pool table.
SimplePaths(a, b, H) ==
    {p \in UNION {[1..n -> Tokens] : n \in 2..Min(H + 1, Cardinality(Tokens))} :
        /\ p[1] = a
        /\ Last(p) = b
        /\ NoRepeat(p)
        /\ \A i \in 1..(Len(p) - 1) : Connected(p[i], p[i + 1])}

\* Two pools join the same token pair.
HasParallelPools ==
    \E i, j \in 1..Len(pools) :
        i # j /\ pools[i].tokenAId = pools[j].tokenAId /\ pools[i].tokenBId = pools[j].tokenBId

BfsFinished == rpc \in {"eval", "done"}

\* C1: every path the enumerator has emitted starts at the source, ends at the
\* destination, has at most maxDepth + 1 tokens and contains no token twice.
C1_PathsSound ==
    \A i \in 1..Len(found) :
        /\ found[i][1] = req.tokenA
        /\ Last(found[i]) = req.tokenB
        /\ Len(found[i]) <= MaxDepthOf(req) + 1
        /\ NoRepeat(found[i])

C1_Witness ==
    /\ rpc = "done"
    /\ MaxDepthOf(req) = 2
    /\ \E i \in 1..Len(found) : Len(found[i]) = 3
    /\ \E n \in DOMAIN graph : Len(graph[n]) >= 2

\* C2: once the search has ended, every simple path from the source to a
\* different destination with at most maxDepth + 1 tokens is in its result.
C2_PathsComplete ==
    (BfsFinished /\ req.tokenA # req.tokenB) =>
        \A p \in SimplePaths(req.tokenA, req.tokenB, MaxDepthOf(req)) : Includes(found, p)

\* A partial path was met twice (parallel pools) and its memoized copy was
\* skipped, and the path through it is in the result.
C2_Witness ==
    /\ rpc = "done"
    /\ HasParallelPools
    /\ \E j \in 1..Len(found) : Len(found[j]) = 3
    /\ \E k \in DOMAIN graph :
          \E i, j \in 1..Len(graph[k]) :
              i # j /\ graph[k][i] = graph[k][j] /\ graph[k][i] # req.tokenB
                    /\ k = req.tokenA

\* C3: a request whose source is its destination gets no path.
C3_SameTokenEmpty ==
    (req.tokenA = req.tokenB) =>
        /\ found = <<>>
        /\ rpc = "done" =>
              IF req.kind = "all" THEN result.paths = <<>> ELSE result = EmptyResult

C3_Witness ==
    /\ rpc = "done"
    /\ req.tokenA = req.tokenB
    /\ MaxDepthOf(req) >= 2
    /\ Len(Neighbors(graph, req.tokenA)) >= 2
    /\ Cardinality(visited) >= 3

OptimalDone == rpc = "done" /\ req.kind = "optimal"

\* C4: the optimal route's expected output is at least the expected output of
\* every entry of allPaths.
C4_OptimalIsMax ==
    (OptimalDone /\ result.optimal # <<>>) =>
        \A i \in 1..Len(result.allPaths) :
            result.optimal[1].expectedOutput >= result.allPaths[i].expectedOutput

C4_Witness ==
    /\ OptimalDone
    /\ result.optimal # <<>>
    /\ Len(result.allPaths) >= 2
    /\ result.allPaths[1].expectedOutput > result.allPaths[2].expectedOutput
    /\ result.allPaths[2].expectedOutput > 0

\* The entries of the candidates 1..n whose quote returned, in order.
RECURSIVE SurvivingEntries(_)
SurvivingEntries(n) ==
    IF n = 0 THEN <<>>
    ELSE SurvivingEntries(n - 1) \o
         (IF quoted[n] # <<>>
          THEN <<[path |-> found[n], expectedOutput |-> quoted[n][1],
                  hops |-> Len(found[n]) - 1,
                  gasEstimate |-> 60000 + 120000 * (Len(found[n]) - 1)]>>
          ELSE <<>>)

\* Entry e is the entry of a candidate whose quote returned.
FromSurvivor(e) ==
    \E i \in 1..Len(quoted) :
        quoted[i] # <<>> /\ found[i] = e.path /\ quoted[i][1] = e.expectedOutput

\* C5: a candidate whose quote throws is in neither allPaths, direct nor
\* optimal; the request goes on to the remaining candidates and returns a
\* result, never an error.
C5_FailedQuoteSkipped ==
    /\ rpc \in {"start", "bfs", "eval", "done"}
    /\ (req.kind = "optimal" /\ rpc \in {"eval", "done"}) =>
          /\ result.allPaths = SurvivingEntries(Len(quoted))
          /\ \A i \in 1..Len(result.direct) : FromSurvivor(result.direct[i])
          /\ \A i \in 1..Len(result.optimal) : FromSurvivor(result.optimal[i])
    /\ (OptimalDone /\ found # <<>>) => Len(quoted) = Len(found)

C5_Witness ==
    /\ OptimalDone
    /\ Len(quoted) >= 2
    /\ quoted[1] = <<>>
    /\ quoted[2] # <<>>
    /\ Len(result.allPaths) = 1
    /\ result.optimal # <<>>

\* C6: the direct route is present exactly when a 2-token candidate survived
\* quoting; it is that path with its quoted output and 1 hop, whether or not
\* the optimal route is the same path.
C6_DirectRoute ==
    OptimalDone =>
        /\ (result.direct # <<>>) <=>
              (\E i \in 1..Len(quoted) : quoted[i] # <<>> /\ Len(found[i]) = 2)
        /\ result.direct # <<>> =>
              /\ result.direct[1].path = <<req.tokenA, req.tokenB>>
              /\ result.direct[1].hops = 1
              /\ FromSurvivor(result.direct[1])

C6_Witness ==
    /\ OptimalDone
    /\ result.direct # <<>>
    /\ result.optimal # <<>>
    /\ result.optimal[1].path = result.direct[1].path
    /\ Len(result.allPaths) >= 2

\* C7: every route entry's gas estimate is 60000 + 120000 * (tokens - 1), and
\* the input amount does not change it.
C7_GasLinear ==
    /\ (req.kind = "optimal" /\ rpc \in {"eval", "done"}) =>
          \A e \in Range(result.allPaths) \cup Range(result.direct) \cup Range(result.optimal) :
              e.gasEstimate = 60000 + 120000 * (Len(e.path) - 1)
    /\ \A i \in 1..Len(found) : \A amountIn \in 0..MaxOut :
          /\ estimateMultiHopGas(found[i], amountIn) = 60000 + 120000 * (Len(found[i]) - 1)
          /\ estimateMultiHopGas(found[i], amountIn) = estimateMultiHopGas(found[i], req.amount)

C7_Witness ==
    /\ OptimalDone
    /\ \E i, j \in 1..Len(result.allPaths) :
          result.allPaths[i].hops = 1 /\ result.allPaths[j].hops = 2
    /\ result.optimal # <<>>

\* The token pairs the stored pools join.
PoolEnds ==
    {{TokenById(pools[i].tokenAId).address, TokenById(pools[i].tokenBId).address} :
        i \in 1..Len(pools)}

\* Every candidate has been quoted and every quote returned.
AllQuotesReturned ==
    /\ Len(quoted) = Len(found)
    /\ \A i \in 1..Len(quoted) : quoted[i] # <<>>

\* The stored pools are one pool A-B and one pool B-C, and the request is
\* from A to C.
TwoHopOnly(b) ==
    /\ Len(pools) = 2
    /\ Cardinality({req.tokenA, b, req.tokenB}) = 3
    /\ PoolEnds = {{req.tokenA, b}, {b, req.tokenB}}

\* C13: with pools A-B and B-C only, an all-paths request from A to C with
\* maxHops = 2 returns exactly the path [A, B, C]; an optimal-path request
\* whose quotes all return has exactly the entry [A, B, C] in allPaths, no
\* direct route, and the optimal route [A, B, C].
C13_TwoHopScenario ==
    \A b \in Tokens :
        (TwoHopOnly(b) /\ rpc = "done") =>
            LET abc == <<req.tokenA, b, req.tokenB>>
            IN  /\ (req.kind = "all" /\ req.maxHops = <<2>>) =>
                      [i \in 1..Len(result.paths) |-> result.paths[i].path] = <<abc>>
                /\ (req.kind = "optimal" /\ AllQuotesReturned) =>
                      /\ [i \in 1..Len(result.allPaths) |-> result.allPaths[i].path] = <<abc>>
                      /\ result.direct = <<>>
                      /\ result.optimal # <<>>
                      /\ result.optimal[1].path = abc

\* The stored pools are A-C, A-B and B-C, and the request is from A to C.
Triangle(b) ==
    /\ Len(pools) = 3
    /\ Cardinality({req.tokenA, b, req.tokenB}) = 3
    /\ PoolEnds = {{req.tokenA, req.tokenB}, {req.tokenA, b}, {b, req.tokenB}}

\* C14: with pools A-C, A-B and B-C, the candidates of a request from A to C
\* that allows two hops or more are exactly [A, C] and [A, B, C]; and when
\* both are quoted with different outputs, the optimal route is the one with
\* the larger output.
C14_TriangleScenario ==
    \A b \in Tokens :
        (Triangle(b) /\ BfsFinished /\ MaxDepthOf(req) >= 2) =>
            /\ Len(found) = 2
            /\ Range(found) = {<<req.tokenA, req.tokenB>>, <<req.tokenA, b, req.tokenB>>}
            /\ (OptimalDone /\ AllQuotesReturned /\ quoted[1] # quoted[2]) =>
                  LET best == IF quoted[1][1] > quoted[2][1] THEN 1 ELSE 2
                  IN  /\ result.optimal # <<>>
                      /\ result.optimal[1].path = found[best]
                      /\ result.optimal[1].expectedOutput = quoted[best][1]

\* The two-hop path was quoted higher than the direct one and is the optimal
\* route.
C14_Witness ==
    \E b \in Tokens :
        /\ Triangle(b)
        /\ OptimalDone
        /\ AllQuotesReturned
        /\ result.optimal # <<>>
        /\ result.optimal[1].path = <<req.tokenA, b, req.tokenB>>
        /\ result.direct # <<>>
        /\ result.direct[1].expectedOutput < result.optimal[1].expectedOutput

\* No sequence of stored pools leads from a to b.
Unconnected(a, b) == SimplePaths(a, b, Cardinality(Tokens)) = {}

\* C15: a request between two tokens that no sequence of pools connects
\* never ends in an error, and returns no paths: the all-paths result is
\* empty, and the optimal-path result has no entry in allPaths, no direct
\* route and no optimal route.
C15_UnconnectedEmpty ==
    Unconnected(req.tokenA, req.tokenB) =>
        /\ rpc # "error"
        /\ found = <<>>
        /\ rpc = "done" =>
              IF req.kind = "all" THEN result.paths = <<>> ELSE result = EmptyResult

\* A request from a token that is in no pool, over a store that has pools,
\* has returned.
C15_Witness ==
    /\ rpc = "done"
    /\ req.kind = "optimal"
    /\ req.tokenA # req.tokenB
    /\ Len(pools) >= 2
    /\ req.tokenA \notin DOMAIN graph
    /\ req.tokenB \in DOMAIN graph
    /\ result = EmptyResult

\* C16: the graph built from the stored pools lists no neighbour twice: a
\* token joined to another by several pools has it as a neighbour exactly
\* once, and each token of a pool has the other as a neighbour.
C16_SimpleAdjacency ==
    rpc # "start" =>
        /\ \A n \in DOMAIN graph : NoRepeat(graph[n])
        /\ \A a, b \in Tokens :
              Connected(a, b) => Cardinality({i \in 1..Len(Neighbors(graph, a)) :
                                                 graph[a][i] = b}) = 1

\* The request is in the middle of its work: paths are still to be expanded
\* or candidates still to be quoted.
RouteAtWork ==
    \/ rpc = "bfs" /\ queue # <<>>
    \/ rpc = "eval" /\ evalIdx <= Len(found)

\* The request returns at this point.
ReturnsNow == RouteNext /\ rpc' = "done"

\* C19: a deadline can strike at any point of a request's work, and the
\* request then returns what it has so far: wherever it is in the
\* enumeration or the evaluation, returning is a step it can take.
C19_DeadlineReturnsPartial == RouteAtWork => ENABLED ReturnsNow

\* C22: an optimal-path request that names a hop bound gets no route with
\* more hops than that: every entry of allPaths, the direct route and the
\* optimal route have at most maxHops hops.
C22_HopBoundHonoured ==
    (req.kind = "optimal" /\ req.maxHops # NaN /\ rpc \in {"eval", "done"}) =>
        /\ \A i \in 1..Len(result.allPaths) : result.allPaths[i].hops <= req.maxHops[1]
        /\ \A i \in 1..Len(result.direct) : result.direct[i].hops <= req.maxHops[1]
        /\ \A i \in 1..Len(result.optimal) : result.optimal[i].hops <= req.maxHops[1]

\* C23: the hop bound an all-paths request hands to the enumerator is 3
\* when maxHops is absent, not a number or zero, and it is at least 1 and at
\* most 4 whatever was requested.
C23_HopBoundRange ==
    req.kind = "all" =>
        /\ (req.maxHops = NaN \/ req.maxHops = <<0>>) => MaxDepthOf(req) = 3
        /\ MaxDepthOf(req) <= 4
        /\ MaxDepthOf(req) >= 1

\* The position in allPaths of the first entry with the greatest expected
\* output.
FirstGreatest ==
    CHOOSE i \in 1..Len(result.allPaths) :
        /\ \A j \in 1..Len(result.allPaths) :
              result.allPaths[j].expectedOutput <= result.allPaths[i].expectedOutput
        /\ \A j \in 1..(i - 1) :
              result.allPaths[j].expectedOutput < result.allPaths[i].expectedOutput

\* C24: when several surviving paths share the greatest expected output,
\* the optimal route is the first of them in discovery order.
C24_TiesFirstDiscovered ==
    (/\ OptimalDone
     /\ \E i, j \in 1..Len(result.allPaths) :
           i # j /\ i = FirstGreatest
           /\ result.allPaths[j].expectedOutput = result.allPaths[i].expectedOutput)
    => /\ result.optimal # <<>>
       /\ result.optimal[1].path = result.allPaths[FirstGreatest].path
       /\ result.optimal[1].expectedOutput = result.allPaths[FirstGreatest].expectedOutput

\* Two tokens are joined to each other along two different routes: the token
\* graph has a cycle of three tokens or more.
HasCycle ==
    \E a, b, c \in Tokens :
        /\ Cardinality({a, b, c}) = 3
        /\ Connected(a, b) /\ Connected(b, c) /\ Connected(c, a)

\* C31: the path enumerator terminates: whenever the search is under way, its
\* work queue eventually becomes empty, whatever the pools (cycles and
\* parallel pools included), the source, the destination and the hop bound.
C31_EnumeratorTerminates == (rpc = "bfs") ~> (rpc = "bfs" /\ queue = <<>>)

\* A search over a graph with a cycle has emptied its queue after expanding
\* two partial paths and emitting two paths.
C31_Witness ==
    /\ rpc = "bfs"
    /\ queue = <<>>
    /\ HasCycle
    /\ Cardinality(visited) >= 2
    /\ Len(found) >= 2

\* C34: the enumerator emits no path twice, whatever the pools, several
\* pools between the same two tokens included.
C34_PathsDistinct ==
    \A i, j \in 1..Len(found) : found[i] = found[j] => i = j

\* C36: a routing result with an entry in allPaths has an optimal route,
\* also when every entry's expected output is 0.
C36_OptimalWhenSurvivor ==
    (OptimalDone /\ result.allPaths # <<>>) => result.optimal # <<>>

\* Route entry e is one of the entries of allPaths.
InAllPaths(e) == \E i \in 1..Len(result.allPaths) : result.allPaths[i] = e

\* C37: the optimal route and the direct route of a routing result, when
\* present, are each an entry of allPaths: the same path, expected output,
\* hop count and gas estimate.
C37_RoutesAmongAllPaths ==
    OptimalDone =>
        /\ \A i \in 1..Len(result.optimal) : InAllPaths(result.optimal[i])
        /\ \A i \in 1..Len(result.direct) : InAllPaths(result.direct[i])

\* The result has a direct route and a different optimal route, the two-hop
\* one, quoted with a greater output than the direct route.
C37_Witness ==
    /\ OptimalDone
    /\ result.direct # <<>>
    /\ result.optimal # <<>>
    /\ result.optimal[1].hops = 2
    /\ result.optimal[1].expectedOutput > result.direct[1].expectedOutput
    /\ result.direct[1].expectedOutput > 0

\* C38: the enumerator emits its paths in non-decreasing order of hop count:
\* no path comes after a path with more tokens.
C38_ShortestFirst ==
    \A i, j \in 1..Len(found) : i < j => Len(found[i]) <= Len(found[j])

\* The search has ended with the one-hop path before the two-hop path,
\* though the source's first neighbour is the middle token of the two-hop
\* path and not the destination.
C38_Witness ==
    /\ BfsFinished
    /\ Len(found) = 2
    /\ Len(found[1]) = 2
    /\ Len(found[2]) = 3
    /\ Neighbors(graph, req.tokenA)[1] = found[2][2]

-----------------------------------------------------------------------------
(* The store: unique indexes, foreign keys and the queries of the indexer *)

\* CREATE UNIQUE INDEX "Token_address_key": a second row with the address
\* is refused.
TokenAddressKeyViolated(address) == \E i \in 1..Len(tokens) : tokens[i].address = address

\* CREATE UNIQUE INDEX "Pool_address_key".
PoolAddressKeyViolated(address) == \E i \in 1..Len(pools) : pools[i].address = address

\* "Pool_tokenAId_fkey", "Pool_tokenBId_fkey".
TokenFkOk(tokenId) == \E i \in 1..Len(tokens) : tokens[i].id = tokenId

\* "Liquidity_poolId_fkey", "Swap_poolId_fkey".
PoolFkOk(poolId) == \E i \in 1..Len(pools) : pools[i].id = poolId

\* The read of prisma.token.upsert({ where: { address }, update: {}, create }):
\* <<row>>, or <<>> when the table has no row with the address.  With an
\* empty update the client does not hand the upsert to the store as one
\* statement: it reads the row and then, when there is none, creates it, so
\* the upserts of two invocations can both read before either creates.
findUniqueToken(address) ==
    IF \E i \in 1..Len(tokens) : tokens[i].address = address
    THEN <<CHOOSE t \in Range(tokens) : t.address = address>>
    ELSE <<>>

\* The create of the upsert: the Token table with the new row.
TokenCreate(address, meta) ==
    Append(tokens, [id |-> Len(tokens) + 1, address |-> address, symbol |-> meta])

\* Mutant of findUniquePool: the where clause is missing and the first row is
\* returned.
findFirstPool(address) == IF Len(pools) = 0 THEN <<>> ELSE <<pools[1]>>

\* prisma.pool.findUnique({ where: { address } }): <<row>>, or <<>> for null.
findUniquePool(address) ==
    IF \E i \in 1..Len(pools) : pools[i].address = address
    THEN <<CHOOSE r \in Range(pools) : r.address = address>>
    ELSE <<>>

-----------------------------------------------------------------------------
(* The chain, as the indexer sees it *)

\* The pairs of the factory: pair address p joins ChainPairs[p], token0 first.
ChainPairs == <<<<1, 2>>, <<1, 3>>>>

PairAddresses == 1..Len(ChainPairs)

\* The decoded arguments of the pair events the handlers take:
\* Swap(amount0In, amount1In, amount0Out, amount1Out), Mint(amount0, amount1),
\* Burn(amount0, amount1); the sender is the same account throughout.
PoolEvents ==
    {[kind |-> "Swap", args |-> <<1, 0, 0, 2>>],
     [kind |-> "Swap", args |-> <<0, 1, 2, 0>>],
     [kind |-> "Mint", args |-> <<100, 200>>],
     [kind |-> "Burn", args |-> <<40, 80>>]}

Sender == "0xS"

\* What getTokenMeta can return for a token: the symbol (with decimals and
\* name) the token contract answers with at the time of the read.
TokenMeta == {"TKN", "TKN2"}

\* No metadata held (a local not yet, or no longer, in use).
NoMeta == ""

-----------------------------------------------------------------------------
(* Handler invocations *)

\* The n-th invocation of the PairCreated listener of main for pair p.
PairCreatedHandler(p, n) ==
    [kind |-> "PairCreated", pair |-> p, n |-> n, lsn |-> 0, ev |-> 0, args |-> <<>>,
     pc |-> "meta", metaA |-> NoMeta, metaB |-> NoMeta, upA |-> "none", upB |-> "none",
     tA |-> 0, tB |-> 0, poolId |-> 0]

\* The invocation of a Swap/Mint/Burn listener of listener set l for the n-th
\* delivery of chain event k, which is e.
PoolEventHandler(l, k, n, e) ==
    [kind |-> e.kind, pair |-> listeners[l], n |-> n, lsn |-> l, ev |-> k,
     args |-> e.args,
     pc |-> "lookup", metaA |-> NoMeta, metaB |-> NoMeta, upA |-> "none", upB |-> "none",
     tA |-> 0, tB |-> 0, poolId |-> 0]

\* How often the PairCreated event of pair p was delivered.
PairCreatedDeliveries(p) ==
    Cardinality({h \in handlers : h.kind = "PairCreated" /\ h.pair = p})

\* How often chain event k was delivered.
Deliveries(k) == Cardinality({h \in handlers : h.ev = k})

\* Invocation h goes on as h2.
Step(h, h2) == (handlers \ {h}) \cup {h2}

\* a || b on strings: the empty string is the only falsy one.
OrString(a, b) == IF a # "" THEN a ELSE b

\* The data of prisma.swap.create in the Swap listener.
SwapData(h) ==
    [poolId |-> h.poolId, trader |-> Sender,
     amountIn |-> OrString(ToString(h.args[1]), ToString(h.args[2])),
     amountOut |-> OrString(ToString(h.args[3]), ToString(h.args[4])),
     tokenIn |-> IF h.args[1] > 0 THEN "token0" ELSE "token1",
     tokenOut |-> IF h.args[3] > 0 THEN "token0" ELSE "token1"]

\* The data of prisma.liquidity.create in the Mint listener.
MintData(h) ==
    [poolId |-> h.poolId, provider |-> Sender,
     amountA |-> ToString(h.args[1]), amountB |-> ToString(h.args[2])]

\* Mutant of BurnData: the amounts are stored without the "-" prefix.
BurnDataUnsigned(h) ==
    [poolId |-> h.poolId, provider |-> Sender,
     amountA |-> ToString(h.args[1]), amountB |-> ToString(h.args[2])]

\* The data of prisma.liquidity.create in the Burn listener.
BurnData(h) ==
    [poolId |-> h.poolId, provider |-> Sender,
     amountA |-> "-" \o ToString(h.args[1]), amountB |-> "-" \o ToString(h.args[2])]

\* The row a create adds: the data with the next SERIAL id.
WithId(tbl, data) == [f \in (DOMAIN data) \cup {"id"} |->
                         IF f = "id" THEN Len(tbl) + 1 ELSE data[f]]

-----------------------------------------------------------------------------
(* main *)

\* factory.on("PairCreated", ...): from now on creation events are handled.
MainRegisterFactory ==
    /\ alive
    /\ mainPc = "start"
    /\ mainPc' = "findMany"
    /\ UNCHANGED <<storeVars, alive, bootPools, listeners, chainLog, handlers>>

\* const pools = await prisma.pool.findMany(): the store answers.
MainFindMany ==
    /\ alive
    /\ mainPc = "findMany"
    /\ bootPools' = [i \in 1..Len(pools) |-> pools[i].address]
    /\ mainPc' = "attach"
    /\ UNCHANGED <<storeVars, alive, listeners, chainLog, handlers>>

\* Mutant of MainAttach: the bootstrap replaces the listeners attached so far.
MainAttachReplaces ==
    /\ alive
    /\ mainPc = "attach"
    /\ listeners' = bootPools
    /\ mainPc' = "done"
    /\ UNCHANGED <<storeVars, alive, bootPools, chainLog, handlers>>

\* for (const pool of pools) attachPairListener(pool.address): no await in
\* the loop, it runs to its end.
MainAttach ==
    /\ alive
    /\ mainPc = "attach"
    /\ listeners' = listeners \o bootPools
    /\ mainPc' = "done"
    /\ UNCHANGED <<storeVars, alive, bootPools, chainLog, handlers>>

-----------------------------------------------------------------------------
(* The PairCreated listener *)

\* The chain client delivers PairCreated(token0, token1, p).
DeliverPairCreated(p) ==
    /\ alive
    /\ mainPc # "start"
    /\ Cardinality(handlers) < MaxHandlers
    /\ PairCreatedDeliveries(p) < MaxDeliveries
    /\ handlers' = handlers \cup {PairCreatedHandler(p, PairCreatedDeliveries(p) + 1)}
    /\ UNCHANGED <<storeVars, alive, mainPc, bootPools, listeners, chainLog>>

\* await Promise.all([getTokenMeta(tokenA), getTokenMeta(tokenB)]), and the
\* two upserts of the next Promise.all are issued.
ReadTokenMeta(h, mA, mB) ==
    /\ alive
    /\ h.kind = "PairCreated"
    /\ h.pc = "meta"
    /\ handlers' = Step(h, [h EXCEPT !.metaA = mA, !.metaB = mB, !.pc = "upsert",
                                     !.upA = "read", !.upB = "read"])
    /\ UNCHANGED <<storeVars, alive, mainPc, bootPools, listeners, chainLog>>

\* Where the listener stands once one of its upserts has returned a row: past
\* the Promise.all when the other has returned too, and where it was (waiting,
\* or already rejected) when not.
AfterUpsert(h, other) == IF h.pc = "upsert" /\ other = "done" THEN "createPool" ELSE h.pc

\* Mutant of UpsertTokenARead: the update of the upsert writes the metadata
\* just read into the row that is there.
UpsertTokenARefreshes(h) ==
    /\ alive
    /\ h.kind = "PairCreated"
    /\ h.upA = "read"
    /\ LET row == findUniqueToken(ChainPairs[h.pair][1])
       IN  /\ handlers' = Step(h,
                  IF row # <<>>
                  THEN [h EXCEPT !.upA = "done", !.tA = row[1].id,
                                 !.pc = AfterUpsert(h, h.upB)]
                  ELSE [h EXCEPT !.upA = "create"])
           /\ tokens' = [i \in 1..Len(tokens) |->
                            IF row # <<>> /\ tokens[i].id = row[1].id
                            THEN [tokens[i] EXCEPT !.symbol = h.metaA]
                            ELSE tokens[i]]
    /\ UNCHANGED <<pools, liquidity, swaps, alive, mainPc, bootPools, listeners,
                   chainLog>>

\* The read of the upsert of tokenA.  A row that is there is updated with {}
\* and returned, and the metadata read for it (const metaA) is left unused;
\* when there is none the create follows.  The two upserts of a Promise.all
\* run independently, and go on when the other has failed.
UpsertTokenARead(h) ==
    /\ alive
    /\ h.kind = "PairCreated"
    /\ h.upA = "read"
    /\ LET row == findUniqueToken(ChainPairs[h.pair][1])
       IN  handlers' = Step(h,
               IF row # <<>>
               THEN [h EXCEPT !.upA = "done", !.tA = row[1].id,
                              !.pc = AfterUpsert(h, h.upB)]
               ELSE [h EXCEPT !.upA = "create"])
    /\ UNCHANGED <<storeVars, alive, mainPc, bootPools, listeners, chainLog>>

\* The create of the upsert of tokenA.  When a row with the address was
\* stored since the read, "Token_address_key" refuses it: the upsert rejects,
\* and with it the Promise.all and the listener, which has no try/catch; its
\* promise rejects with nobody to handle it, which ends the process or not,
\* as the runtime is set up.
UpsertTokenACreate(h, survives) ==
    /\ alive
    /\ h.kind = "PairCreated"
    /\ h.upA = "create"
    /\ LET address == ChainPairs[h.pair][1]
       IN  IF TokenAddressKeyViolated(address)
           THEN /\ handlers' = Step(h, [h EXCEPT !.upA = "failed", !.metaA = NoMeta,
                                                 !.pc = "rejected"])
                /\ alive' = IF h.pc = "rejected" THEN alive ELSE survives
                /\ UNCHANGED tokens
           ELSE /\ tokens' = TokenCreate(address, h.metaA)
                /\ handlers' = Step(h, [h EXCEPT !.upA = "done", !.tA = Len(tokens) + 1,
                                                 !.metaA = NoMeta,
                                                 !.pc = AfterUpsert(h, h.upB)])
                /\ UNCHANGED alive
    /\ UNCHANGED <<pools, liquidity, swaps, mainPc, bootPools, listeners, chainLog>>

\* The read of the upsert of tokenB.
UpsertTokenBRead(h) ==
    /\ alive
    /\ h.kind = "PairCreated"
    /\ h.upB = "read"
    /\ LET row == findUniqueToken(ChainPairs[h.pair][2])
       IN  handlers' = Step(h,
               IF row # <<>>
               THEN [h EXCEPT !.upB = "done", !.tB = row[1].id,
                              !.pc = AfterUpsert(h, h.upA)]
               ELSE [h EXCEPT !.upB = "create"])
    /\ UNCHANGED <<storeVars, alive, mainPc, bootPools, listeners, chainLog>>

\* The create of the upsert of tokenB.
UpsertTokenBCreate(h, survives) ==
    /\ alive
    /\ h.kind = "PairCreated"
    /\ h.upB = "create"
    /\ LET address == ChainPairs[h.pair][2]
       IN  IF TokenAddressKeyViolated(address)
           THEN /\ handlers' = Step(h, [h EXCEPT !.upB = "failed", !.metaB = NoMeta,
                                                 !.pc = "rejected"])
                /\ alive' = IF h.pc = "rejected" THEN alive ELSE survives
                /\ UNCHANGED tokens
           ELSE /\ tokens' = TokenCreate(address, h.metaB)
                /\ handlers' = Step(h, [h EXCEPT !.upB = "done", !.tB = Len(tokens) + 1,
                                                 !.metaB = NoMeta,
                                                 !.pc = AfterUpsert(h, h.upA)])
                /\ UNCHANGED alive
    /\ UNCHANGED <<pools, liquidity, swaps, mainPc, bootPools, listeners, chainLog>>

\* await prisma.pool.create({ data: { address: pair, tokenAId, tokenBId } })
\* stores the row.
CreatePool(h) ==
    /\ alive
    /\ h.kind = "PairCreated"
    /\ h.pc = "createPool"
    /\ ~PoolAddressKeyViolated(h.pair)
    /\ TokenFkOk(h.tA) /\ TokenFkOk(h.tB)
    /\ pools' = Append(pools, [id |-> Len(pools) + 1, address |-> h.pair,
                               tokenAId |-> h.tA,
                               tokenBId |-> h.tB])
    /\ handlers' = Step(h, [h EXCEPT !.pc = "attach"])
    /\ UNCHANGED <<tokens, liquidity, swaps, alive, mainPc, bootPools, listeners,
                   chainLog>>

\* The create is refused by "Pool_address_key", and the listener rejects
\* unhandled, as it does on a refused token create.
CreatePoolRejected(h, survives) ==
    /\ alive
    /\ h.kind = "PairCreated"
    /\ h.pc = "createPool"
    /\ PoolAddressKeyViolated(h.pair)
    /\ handlers' = Step(h, [h EXCEPT !.pc = "rejected"])
    /\ alive' = survives
    /\ UNCHANGED <<storeVars, mainPc, bootPools, listeners, chainLog>>

\* Mutant of AttachNewPair: the listeners are installed before the Pool row
\* is created.
AttachNewPairBeforeCreate(h) ==
    /\ alive
    /\ h.kind = "PairCreated"
    /\ h.pc = "createPool"
    /\ listeners' = Append(listeners, h.pair)
    /\ handlers' = Step(h, [h EXCEPT !.pc = "done"])
    /\ UNCHANGED <<storeVars, alive, mainPc, bootPools, chainLog>>

\* attachPairListener(pair): the Swap, Mint and Burn listeners are installed.
AttachNewPair(h) ==
    /\ alive
    /\ h.kind = "PairCreated"
    /\ h.pc = "attach"
    /\ listeners' = Append(listeners, h.pair)
    /\ handlers' = Step(h, [h EXCEPT !.pc = "done"])
    /\ UNCHANGED <<storeVars, alive, mainPc, bootPools, chainLog>>

-----------------------------------------------------------------------------
(* The Swap, Mint and Burn listeners of attachPairListener *)

\* A pair emits an event and listener set l receives it.
DeliverPoolEvent(l, e) ==
    /\ alive
    /\ Cardinality(handlers) < MaxHandlers
    /\ chainLog' = Append(chainLog, [pair |-> listeners[l], kind |-> e.kind,
                                     args |-> e.args])
    /\ handlers' = handlers \cup {PoolEventHandler(l, Len(chainLog) + 1, 1, e)}
    /\ UNCHANGED <<storeVars, alive, mainPc, bootPools, listeners>>

\* Chain event k is delivered once more: to another listener set of its pair,
\* or again to the same one.
RedeliverPoolEvent(l, k) ==
    /\ alive
    /\ Cardinality(handlers) < MaxHandlers
    /\ chainLog[k].pair = listeners[l]
    /\ Deliveries(k) < MaxDeliveries
    /\ handlers' = handlers \cup {PoolEventHandler(l, k, Deliveries(k) + 1, chainLog[k])}
    /\ UNCHANGED <<storeVars, alive, mainPc, bootPools, listeners, chainLog>>

\* Mutant of LookupPool: the lookup is outside the try, and a null row ends
\* the listener in a rejection nobody handles.
LookupPoolOutsideTry(h) ==
    /\ alive
    /\ h.kind # "PairCreated"
    /\ h.pc = "lookup"
    /\ LET row == findUniquePool(h.pair)
       IN  IF row = <<>>
           THEN /\ handlers' = Step(h, [h EXCEPT !.pc = "rejected"])
                /\ alive' = FALSE
           ELSE /\ handlers' = Step(h, [h EXCEPT !.poolId = row[1].id, !.pc = "write"])
                /\ UNCHANGED alive
    /\ UNCHANGED <<storeVars, mainPc, bootPools, listeners, chainLog>>

\* poolId: (await prisma.pool.findUnique({ where: { address } }))!.id; on
\* null the property read throws, the catch logs, nothing is written.
LookupPool(h) ==
    /\ alive
    /\ h.kind # "PairCreated"
    /\ h.pc = "lookup"
    /\ LET row == findUniquePool(h.pair)
       IN  handlers' = IF row = <<>>
                       THEN Step(h, [h EXCEPT !.pc = "caught"])
                       ELSE Step(h, [h EXCEPT !.poolId = row[1].id, !.pc = "write"])
    /\ UNCHANGED <<storeVars, alive, mainPc, bootPools, listeners, chainLog>>

\* await prisma.swap.create / prisma.liquidity.create: the row is stored, or
\* the foreign key refuses it and the catch logs.
WriteRecord(h) ==
    /\ alive
    /\ h.kind # "PairCreated"
    /\ h.pc = "write"
    /\ IF ~PoolFkOk(h.poolId)
       THEN /\ handlers' = Step(h, [h EXCEPT !.pc = "caught"])
            /\ UNCHANGED <<swaps, liquidity>>
       ELSE /\ handlers' = Step(h, [h EXCEPT !.pc = "done"])
            /\ swaps' = IF h.kind = "Swap"
                        THEN Append(swaps, WithId(swaps, SwapData(h)))
                        ELSE swaps
            /\ liquidity' =
                  IF h.kind = "Mint"
                  THEN Append(liquidity, WithId(liquidity, MintData(h)))
                  ELSE IF h.kind = "Burn"
                  THEN Append(liquidity, WithId(liquidity, BurnData(h)))
                  ELSE liquidity
    /\ UNCHANGED <<tokens, pools, alive, mainPc, bootPools, listeners, chainLog>>

-----------------------------------------------------------------------------
(* The indexer specification *)

\* The store of a first start is empty; the store of a restart holds what an
\* earlier run indexed, here the first pair.
SeededTokens ==
    <<[id |-> 1, address |-> ChainPairs[1][1], symbol |-> "TKN"],
      [id |-> 2, address |-> ChainPairs[1][2], symbol |-> "TKN"]>>

SeededPools == <<[id |-> 1, address |-> 1, tokenAId |-> 1, tokenBId |-> 2]>>

Init ==
    /\ \/ tokens = <<>> /\ pools = <<>>
       \/ tokens = SeededTokens /\ pools = SeededPools
    /\ liquidity = <<>>
    /\ swaps = <<>>
    /\ alive = TRUE
    /\ mainPc = "start"
    /\ bootPools = <<>>
    /\ listeners = <<>>
    /\ chainLog = <<>>
    /\ handlers = {}
    /\ req = [kind |-> "none", tokenA |-> 1, tokenB |-> 1, maxHops |-> NaN, amount |-> 1]
    /\ rpc = "idle"
    /\ graph = EmptyGraph
    /\ queue = <<>>
    /\ visited = {}
    /\ found = <<>>
    /\ evalIdx = 0
    /\ bestPath = <<>>
    /\ bestOutput = 0
    /\ quoted = <<>>
    /\ result = EmptyResult
    /\ reserves = NoPairs
    /\ calls = <<>>
    /\ factory = NewFactory

Next ==
    \/ MainRegisterFactory /\ UNCHANGED <<routeVars, quoteVars>>
    \/ MainFindMany /\ UNCHANGED <<routeVars, quoteVars>>
    \/ MainAttach /\ UNCHANGED <<routeVars, quoteVars>>
    \/ (\E p \in PairAddresses : DeliverPairCreated(p)) /\ UNCHANGED <<routeVars, quoteVars>>
    \/ (\E h \in handlers : \E mA, mB \in TokenMeta : ReadTokenMeta(h, mA, mB))
          /\ UNCHANGED <<routeVars, quoteVars>>
    \/ (\E h \in handlers : UpsertTokenARead(h)) /\ UNCHANGED <<routeVars, quoteVars>>
    \/ (\E h \in handlers : \E survives \in BOOLEAN : UpsertTokenACreate(h, survives))
          /\ UNCHANGED <<routeVars, quoteVars>>
    \/ (\E h \in handlers : UpsertTokenBRead(h)) /\ UNCHANGED <<routeVars, quoteVars>>
    \/ (\E h \in handlers : \E survives \in BOOLEAN : UpsertTokenBCreate(h, survives))
          /\ UNCHANGED <<routeVars, quoteVars>>
    \/ (\E h \in handlers : CreatePool(h)) /\ UNCHANGED <<routeVars, quoteVars>>
    \/ (\E h \in handlers : \E survives \in BOOLEAN : CreatePoolRejected(h, survives))
          /\ UNCHANGED <<routeVars, quoteVars>>
    \/ (\E h \in handlers : AttachNewPair(h)) /\ UNCHANGED <<routeVars, quoteVars>>
    \/ (\E l \in 1..Len(listeners) : \E e \in PoolEvents : DeliverPoolEvent(l, e))
          /\ UNCHANGED <<routeVars, quoteVars>>
    \/ (\E l \in 1..Len(listeners) : \E k \in 1..Len(chainLog) : RedeliverPoolEvent(l, k))
          /\ UNCHANGED <<routeVars, quoteVars>>
    \/ (\E h \in handlers : LookupPool(h)) /\ UNCHANGED <<routeVars, quoteVars>>
    \/ (\E h \in handlers : WriteRecord(h)) /\ UNCHANGED <<routeVars, quoteVars>>

Spec == Init /\ [][Next]_vars

-----------------------------------------------------------------------------
(* Properties of the indexer *)

PairCreatedHandlers(p) == {h \in handlers : h.kind = "PairCreated" /\ h.pair = p}

PoolEventHandlers == {h \in handlers : h.kind # "PairCreated"}

\* The invocations for chain event k.
HandlersOf(k) == {h \in handlers : h.ev = k}

TokenRowsAt(address) == {i \in 1..Len(tokens) : tokens[i].address = address}

PoolRowsAt(address) == {i \in 1..Len(pools) : pools[i].address = address}

\* A PairCreated invocation has ended: it returned or rejected, and neither of
\* its upserts is still under way.
Ended(h) ==
    /\ h.pc \in {"done", "rejected"}
    /\ h.upA \in {"done", "failed"}
    /\ h.upB \in {"done", "failed"}

\* C8: once the same PairCreated event was delivered twice and both of its
\* handlers have ended, the store holds exactly one Pool row for the pool
\* address and exactly one Token row for each of the two token addresses.
C8_PairCreatedIdempotent ==
    \A p \in PairAddresses :
        (/\ PairCreatedDeliveries(p) = 2
         /\ \A h \in PairCreatedHandlers(p) : Ended(h))
        => /\ Cardinality(PoolRowsAt(p)) = 1
           /\ Cardinality(TokenRowsAt(ChainPairs[p][1])) = 1
           /\ Cardinality(TokenRowsAt(ChainPairs[p][2])) = 1

\* C9: every Swap and Liquidity row references a Pool row that exists, the
\* row of the pool that emitted its event: a handler writes only with the id
\* its lookup of that pool returned, and a handler that ended in its catch
\* wrote nothing.
C9_EventsReferencePool ==
    /\ \A i \in 1..Len(swaps) : \E j \in 1..Len(pools) : pools[j].id = swaps[i].poolId
    /\ \A i \in 1..Len(liquidity) :
          \E j \in 1..Len(pools) : pools[j].id = liquidity[i].poolId
    /\ \A h \in PoolEventHandlers :
          h.pc \in {"write", "done"} =>
              \E j \in 1..Len(pools) : pools[j].id = h.poolId /\ pools[j].address = h.pair
    /\ Len(swaps) + Len(liquidity) =
          Cardinality({h \in PoolEventHandlers : h.pc = "done"})

C9_Witness ==
    /\ Len(swaps) = 1
    /\ Len(liquidity) = 1
    /\ \E j \in 1..Len(pools) :
          pools[j].id = swaps[1].poolId /\ pools[j].id = liquidity[1].poolId

\* C10: when a Swap, Mint or Burn event was delivered more than once and its
\* handlers have ended, the store holds exactly one record for it (each
\* handler that ended normally has stored one row).
C10_EventsIdempotent ==
    \A k \in 1..Len(chainLog) :
        (/\ Deliveries(k) >= 2
         /\ \A h \in HandlersOf(k) : h.pc \in {"done", "caught"})
        => /\ Cardinality({h \in HandlersOf(k) : h.pc = "done"}) = 1
           /\ Len(swaps) + Len(liquidity) <= Len(chainLog)
-----------------------------------------------------------------------------
(* Liquidity and swap records against the events they were written for *)

\* The value of a decimal digit.
Digit(c) ==
    CASE c = "0" -> 0 [] c = "1" -> 1 [] c = "2" -> 2 [] c = "3" -> 3 [] c = "4" -> 4
      [] c = "5" -> 5 [] c = "6" -> 6 [] c = "7" -> 7 [] c = "8" -> 8 [] c = "9" -> 9

RECURSIVE ParseDigits(_, _)
ParseDigits(str, acc) ==
    IF Len(str) = 0 THEN acc
    ELSE ParseDigits(SubSeq(str, 2, Len(str)), 10 * acc + Digit(SubSeq(str, 1, 1)))

\* The integer a stored amount string denotes: decimal digits, with "-" in
\* front for a negative amount.
Signed(str) ==
    IF SubSeq(str, 1, 1) = "-"
    THEN 0 - ParseDigits(SubSeq(str, 2, Len(str)), 0)
    ELSE ParseDigits(str, 0)

RECURSIVE SumSeq(_)
SumSeq(ns) == IF ns = <<>> THEN 0 ELSE Head(ns) + SumSeq(Tail(ns))

\* The Liquidity rows of the pool with address p, in insertion order.
LiquidityOf(p) ==
    SelectSeq(liquidity, LAMBDA r :
        \E j \in 1..Len(pools) : pools[j].id = r.poolId /\ pools[j].address = p)

\* The Mint and Burn events pair p has emitted, in emission order.
LiquidityEventsOf(p) ==
    SelectSeq(chainLog, LAMBDA e : e.pair = p /\ e.kind \in {"Mint", "Burn"})

\* The signed amounts the event stands for: added on Mint, removed on Burn.
SignedAmounts(e) ==
    IF e.kind = "Mint" THEN <<e.args[1], e.args[2]>>
    ELSE <<0 - e.args[1], 0 - e.args[2]>>

\* Every Mint and Burn event of pair p was delivered exactly once and its
\* handler has stored its row.
LiquidityHandledOnce(p) ==
    \A k \in 1..Len(chainLog) :
        (chainLog[k].pair = p /\ chainLog[k].kind \in {"Mint", "Burn"})
        => /\ Deliveries(k) = 1
           /\ \A h \in HandlersOf(k) : h.pc = "done"

OneSided(args) ==
    /\ (args[1] = 0) # (args[2] = 0)
    /\ (args[3] = 0) # (args[4] = 0)

\* Row r is the record of the one-sided Swap event with arguments args:
\* tokenIn and tokenOut name the sides whose amounts are nonzero and amountIn
\* and amountOut are those amounts.
RecordsSwap(r, args) ==
    /\ r.tokenIn = (IF args[1] # 0 THEN "token0" ELSE "token1")
    /\ r.tokenOut = (IF args[3] # 0 THEN "token0" ELSE "token1")
    /\ Signed(r.amountIn) = (IF args[1] # 0 THEN args[1] ELSE args[2])
    /\ Signed(r.amountOut) = (IF args[3] # 0 THEN args[3] ELSE args[4])

\* C12: every Swap row is the record of a one-sided Swap event its pool has
\* emitted: its tokenIn and tokenOut name the nonzero sides and its amountIn
\* and amountOut equal the nonzero amounts, on whichever side they are.
C12_SwapNonzeroSides ==
    \A i \in 1..Len(swaps) :
        \E k \in 1..Len(chainLog) :
            /\ chainLog[k].kind = "Swap"
            /\ OneSided(chainLog[k].args)
            /\ \E j \in 1..Len(pools) :
                  pools[j].id = swaps[i].poolId /\ pools[j].address = chainLog[k].pair
            /\ RecordsSwap(swaps[i], chainLog[k].args)

-----------------------------------------------------------------------------
(* Start-up and failures *)

\* C17: until main has attached the listeners of the pools it found in the
\* store, no PairCreated handler has created a pool or attached a listener.
C17_BootstrapBeforeCreation ==
    mainPc # "done" =>
        \A h \in handlers : h.kind = "PairCreated" => h.pc \notin {"attach", "done"}

\* C18: no failure in a handler ends the process or escapes its handler:
\* the process stays alive, and a handler that failed ended in its catch,
\* never in a rejection nobody handles.
C18_FailuresCaught ==
    /\ alive
    /\ \A h \in handlers : h.pc # "rejected"

\* C25: a PairCreated handler whose pool address is already in the store
\* completes without raising: no handler that has both its token rows ends
\* rejected, which is how a handler ends when its pool.create finds the
\* address stored.
C25_ExistingPoolNoOp ==
    \A h \in handlers :
        (h.kind = "PairCreated" /\ h.upA = "done" /\ h.upB = "done") => h.pc # "rejected"

\* C27: listeners are never detached: every listener set that is attached
\* stays attached, to the same pool, in every step of the indexer.
C27_ListenersMonotonic ==
    [][\A l \in 1..Len(listeners) :
          Len(listeners') >= l /\ listeners'[l] = listeners[l]]_vars

\* Listeners attached by a PairCreated handler and listeners attached by the
\* bootstrap, for different pools, are both in place.
C27_Witness ==
    /\ mainPc = "done"
    /\ Len(listeners) >= 2
    /\ \E h \in handlers : h.kind = "PairCreated" /\ h.pc = "done"
    /\ listeners[1] # listeners[2]

\* C28: every pool with listeners attached has a Pool row in the store, and
\* the two token references of the row name Token rows that exist, of the
\* pool's two tokens.
C28_ListeningPoolsStored ==
    \A l \in 1..Len(listeners) :
        \E j \in 1..Len(pools) :
            /\ pools[j].address = listeners[l]
            /\ \E a, b \in 1..Len(tokens) :
                  /\ tokens[a].id = pools[j].tokenAId
                  /\ tokens[b].id = pools[j].tokenBId
                  /\ tokens[a].address = ChainPairs[listeners[l]][1]
                  /\ tokens[b].address = ChainPairs[listeners[l]][2]

\* On a store that was empty, a PairCreated handler has stored the tokens
\* and the pool and attached the pool's listeners.
C28_Witness ==
    /\ Len(listeners) = 1
    /\ bootPools = <<>>
    /\ mainPc = "done"
    /\ \E h \in handlers : h.kind = "PairCreated" /\ h.pc = "done" /\ h.pair = listeners[1]
    /\ Len(pools) = 1
    /\ Len(tokens) = 2

\* C29: when the PairCreated events of two pools that share a token were
\* each delivered once and both handlers have ended, the store holds exactly
\* one Token row for the shared address and the Pool rows of both pools.
C29_SharedTokenRace ==
    \A p, q \in PairAddresses :
        (/\ p # q
         /\ ChainPairs[p][1] = ChainPairs[q][1]
         /\ PairCreatedDeliveries(p) = 1
         /\ PairCreatedDeliveries(q) = 1
         /\ \A h \in PairCreatedHandlers(p) \cup PairCreatedHandlers(q) : Ended(h))
        => /\ Cardinality(TokenRowsAt(ChainPairs[p][1])) = 1
           /\ Cardinality(PoolRowsAt(p)) = 1
           /\ Cardinality(PoolRowsAt(q)) = 1

\* The Swap rows of the pool with address p, in insertion order.
SwapsOf(p) ==
    SelectSeq(swaps, LAMBDA r :
        \E j \in 1..Len(pools) : pools[j].id = r.poolId /\ pools[j].address = p)

\* The Swap events pair p has emitted, in emission order.
SwapEventsOf(p) == SelectSeq(chainLog, LAMBDA e : e.pair = p /\ e.kind = "Swap")

\* Every event of pair p was delivered exactly once and its handler has
\* stored its row.
HandledOnce(p) ==
    \A k \in 1..Len(chainLog) :
        chainLog[k].pair = p
        => /\ Deliveries(k) = 1
           /\ \A h \in HandlersOf(k) : h.pc = "done"

\* C30: when each event of a pool was delivered once and handled, the
\* pool's Liquidity rows are in the order in which their Mint and Burn
\* events were emitted, and its Swap rows in the order of their Swap events.
C30_PersistedInEmissionOrder ==
    \A p \in PairAddresses :
        HandledOnce(p) =>
            LET lrows == LiquidityOf(p)
                levs == LiquidityEventsOf(p)
                srows == SwapsOf(p)
                sevs == SwapEventsOf(p)
            IN  /\ [i \in 1..Len(lrows) |->
                       <<Signed(lrows[i].amountA), Signed(lrows[i].amountB)>>]
                   = [k \in 1..Len(levs) |-> SignedAmounts(levs[k])]
                /\ [i \in 1..Len(srows) |-> srows[i].tokenIn]
                   = [k \in 1..Len(sevs) |->
                         IF sevs[k].args[1] # 0 THEN "token0" ELSE "token1"]

\* C32: a Token row is never changed once it is stored: every step of the
\* indexer, the handling of a PairCreated event that mentions a stored token
\* address included, leaves every stored Token row as it is, whatever
\* metadata the handler has read from the chain.
C32_TokenImmutable ==
    [][\A i \in 1..Len(tokens) : i <= Len(tokens') /\ tokens'[i] = tokens[i]]_vars

\* The upsert of tokenA of a PairCreated handler has found a stored row whose
\* symbol is not the one the handler had read from the chain.
C32_Witness ==
    \E h \in handlers :
        /\ h.kind = "PairCreated"
        /\ h.upA = "done"
        /\ h.metaA # NoMeta
        /\ \E i \in 1..Len(tokens) :
              /\ tokens[i].id = h.tA
              /\ tokens[i].symbol # h.metaA

\* The listener sets attached to pair p.
ListenerSetsOf(p) == {l \in 1..Len(listeners) : listeners[l] = p}

\* C35: no pool has two sets of Swap/Mint/Burn listeners, however the
\* bootstrap of main and the PairCreated handlers interleave; and so an event
\* that the chain delivers once to each listener set of its pool has at most
\* one stored record.
C35_OneListenerSetPerPool ==
    /\ \A p \in PairAddresses : Cardinality(ListenerSetsOf(p)) <= 1
    /\ \A k \in 1..Len(chainLog) :
          (\A h1, h2 \in HandlersOf(k) : h1.lsn = h2.lsn => h1 = h2)
          => Cardinality({h \in HandlersOf(k) : h.pc = "done"}) <= 1

-----------------------------------------------------------------------------
(* The pool listeners over a store that has lost Pool rows *)

\* The indexer is past its start-up with the listeners of both pairs
\* attached; of their Pool rows the store holds any subset (rows can be
\* removed from the database under the running process).
ListenerInit ==
    /\ tokens = [a \in 1..3 |-> [id |-> a, address |-> a, symbol |-> "TKN"]]
    /\ \E present \in SUBSET PairAddresses :
          pools = SelectSeq([p \in PairAddresses |->
                                [id |-> p, address |-> p, tokenAId |-> ChainPairs[p][1],
                                 tokenBId |-> ChainPairs[p][2]]],
                            LAMBDA row : row.address \in present)
    /\ liquidity = <<>>
    /\ swaps = <<>>
    /\ alive = TRUE
    /\ mainPc = "done"
    /\ bootPools = <<1, 2>>
    /\ listeners = <<1, 2>>
    /\ chainLog = <<>>
    /\ handlers = {}
    /\ req = [kind |-> "none", tokenA |-> 1, tokenB |-> 1, maxHops |-> NaN, amount |-> 1]
    /\ rpc = "idle"
    /\ graph = EmptyGraph
    /\ queue = <<>>
    /\ visited = {}
    /\ found = <<>>
    /\ evalIdx = 0
    /\ bestPath = <<>>
    /\ bestOutput = 0
    /\ quoted = <<>>
    /\ result = EmptyResult
    /\ reserves = NoPairs
    /\ calls = <<>>
    /\ factory = NewFactory

ListenerNext ==
    \/ (\E l \in 1..Len(listeners) : \E e \in PoolEvents : DeliverPoolEvent(l, e))
          /\ UNCHANGED <<routeVars, quoteVars>>
    \/ (\E l \in 1..Len(listeners) : \E k \in 1..Len(chainLog) : RedeliverPoolEvent(l, k))
          /\ UNCHANGED <<routeVars, quoteVars>>
    \/ (\E h \in handlers : LookupPool(h)) /\ UNCHANGED <<routeVars, quoteVars>>
    \/ (\E h \in handlers : WriteRecord(h)) /\ UNCHANGED <<routeVars, quoteVars>>

SpecListener == ListenerInit /\ [][ListenerNext]_vars

\* C26: a Swap handler whose pool has no row in the store ends in its catch
\* and writes nothing: the process stays alive, no handler ends in an
\* unhandled rejection, a handler of an unresolved pool never gets to its
\* write, and the Swap table holds one row per Swap handler that finished.
C26_UnresolvedPoolCaught ==
    /\ alive
    /\ \A h \in handlers :
          /\ h.pc # "rejected"
          /\ (h.kind = "Swap" /\ findUniquePool(h.pair) = <<>>) => h.pc \in {"lookup", "caught"}
    /\ Len(swaps) = Cardinality({h \in handlers : h.kind = "Swap" /\ h.pc = "done"})
    /\ \A i \in 1..Len(swaps) : PoolFkOk(swaps[i].poolId)

\* A Swap of a pool without a row was caught, and a later Swap of the other
\* pool was handled and stored.
C26_Witness ==
    \E h1, h2 \in handlers :
        /\ h1.kind = "Swap" /\ h2.kind = "Swap"
        /\ findUniquePool(h1.pair) = <<>>
        /\ h1.pc = "caught"
        /\ h1.ev < h2.ev
        /\ h2.pc = "done"
        /\ Len(swaps) = 1
        /\ alive

-----------------------------------------------------------------------------
(* AMM.getQuantityOut and AMMRouter.getAmountsOut *)

\* A call that reverts returns nothing; one that returns v returns <<v>>.
Reverted == <<>>

\* Checked arithmetic of Solidity 0.8 on unsigned integers.
CheckedAdd(a, b) == IF a + b > MaxUint THEN Reverted ELSE <<a + b>>

CheckedMul(a, b) == IF a * b > MaxUint THEN Reverted ELSE <<a * b>>

\* factory.getPair(a, b): the pair of the two tokens, in either order, or
\* <<>> for address(0).
getPair(a, b) ==
    IF <<a, b>> \in DOMAIN reserves THEN <<<<a, b>>>>
    ELSE IF <<b, a>> \in DOMAIN reserves THEN <<<<b, a>>>>
    ELSE <<>>

\* Mutant of ConstantProductOut: the quotient is returned, not what is left
\* of the reserve after it.
ConstantProductQuotient(x, y, dx) ==
    LET xy == CheckedMul(x, y)
        xdx == CheckedAdd(x, dx)
    IN  IF xy = Reverted \/ xdx = Reverted THEN Reverted
        ELSE <<xy[1] \div xdx[1]>>

\* dy = y - (x*y)/(x+dx), for dx > 0.
ConstantProductOut(x, y, dx) ==
    LET xy == CheckedMul(x, y)
        xdx == CheckedAdd(x, dx)
    IN  IF xy = Reverted \/ xdx = Reverted THEN Reverted
        ELSE <<y - (xy[1] \div xdx[1])>>

\* AMM(pair).getQuantityOut(tokenIn, amountIn); pair is <<token0, token1>>.
getQuantityOut(pair, tokenIn, amountIn) ==
    IF ~(amountIn > 0) THEN Reverted
    ELSE IF ~(tokenIn = pair[1] \/ tokenIn = pair[2]) THEN Reverted
    ELSE IF tokenIn = pair[1]
         THEN ConstantProductOut(reserves[pair][1], reserves[pair][2], amountIn)
         ELSE ConstantProductOut(reserves[pair][2], reserves[pair][1], amountIn)

\* AMMRouter.getAmountOut: _pairFor reverts with PairNotFound.
getAmountOut(amountIn, tokenIn, tokenOut) ==
    LET p == getPair(tokenIn, tokenOut)
    IN  IF p = <<>> THEN Reverted ELSE getQuantityOut(p[1], tokenIn, amountIn)

\* A call getAmountsOut(amountIn, path) on entry.
QuoteCall(amountIn, path) ==
    [amountIn |-> amountIn, path |-> path, amounts |-> <<>>, pc |-> "entry"]

\* The calls are eth_call reads against one block: a call starts when the
\* one before it has ended.
Running(c) ==
    /\ c \in 1..Len(calls)
    /\ \A d \in 1..(c - 1) : calls[d].pc \in {"returned", "reverted"}

\* if (path.length < 2) revert InvalidPath(); amounts[0] = amountIn;
QuoteEnter(c) ==
    /\ Running(c)
    /\ calls[c].pc = "entry"
    /\ calls' = [calls EXCEPT ![c] =
           IF Len(calls[c].path) < 2 THEN [@ EXCEPT !.pc = "reverted"]
           ELSE [@ EXCEPT !.amounts = <<calls[c].amountIn>>, !.pc = "loop"]]
    /\ UNCHANGED <<reserves, factory>>

\* One iteration of the loop: amounts[i + 1] = getAmountOut(amounts[i],
\* path[i], path[i + 1]); a revert of the hop reverts the call.
QuoteHop(c) ==
    /\ Running(c)
    /\ calls[c].pc = "loop"
    /\ Len(calls[c].amounts) < Len(calls[c].path)
    /\ LET i == Len(calls[c].amounts)
           out == getAmountOut(calls[c].amounts[i], calls[c].path[i], calls[c].path[i + 1])
       IN  calls' = [calls EXCEPT ![c] =
               IF out = Reverted THEN [@ EXCEPT !.pc = "reverted"]
               ELSE [@ EXCEPT !.amounts = Append(@, out[1])]]
    /\ UNCHANGED <<reserves, factory>>

\* The loop has ended and amounts is returned.
QuoteReturn(c) ==
    /\ Running(c)
    /\ calls[c].pc = "loop"
    /\ Len(calls[c].amounts) = Len(calls[c].path)
    /\ calls' = [calls EXCEPT ![c].pc = "returned"]
    /\ UNCHANGED <<reserves, factory>>

\* The tokens and the pairs of the quoted chain: pairs 1-2 and 2-3 exist,
\* 1-3 does not.
QuoteTokens == 1..3

QuotePairs == {<<1, 2>>, <<2, 3>>}

QuotePaths == UNION {[1..n -> QuoteTokens] : n \in 1..3}

\* Two quotes of one path, for amounts x <= y, against pairs holding any
\* reserves.
QuoteInit ==
    /\ reserves \in [QuotePairs -> (0..MaxReserve) \X (0..MaxReserve)]
    /\ \E path \in QuotePaths : \E x, y \in 0..MaxAmountIn :
          /\ x <= y
          /\ calls = <<QuoteCall(x, path), QuoteCall(y, path)>>
    /\ tokens = <<>>
    /\ pools = <<>>
    /\ liquidity = <<>>
    /\ swaps = <<>>
    /\ alive = FALSE
    /\ mainPc = "start"
    /\ bootPools = <<>>
    /\ listeners = <<>>
    /\ chainLog = <<>>
    /\ handlers = {}
    /\ req = [kind |-> "none", tokenA |-> 1, tokenB |-> 1, maxHops |-> NaN, amount |-> 1]
    /\ rpc = "idle"
    /\ graph = EmptyGraph
    /\ queue = <<>>
    /\ visited = {}
    /\ found = <<>>
    /\ evalIdx = 0
    /\ bestPath = <<>>
    /\ bestOutput = 0
    /\ quoted = <<>>
    /\ result = EmptyResult
    /\ factory = NewFactory

QuoteNext ==
    \/ (\E c \in 1..Len(calls) : QuoteEnter(c))
          /\ UNCHANGED <<storeVars, indexerVars, routeVars>>
    \/ (\E c \in 1..Len(calls) : QuoteHop(c))
          /\ UNCHANGED <<storeVars, indexerVars, routeVars>>
    \/ (\E c \in 1..Len(calls) : QuoteReturn(c))
          /\ UNCHANGED <<storeVars, indexerVars, routeVars>>

SpecQuote == QuoteInit /\ [][QuoteNext]_vars

\* C20: two quotes of the same path against the same reserves, for amounts
\* x <= y, that both return: the final amount for x is at most the final
\* amount for y.
C20_QuoteMonotone ==
    (/\ Len(calls) = 2
     /\ calls[1].pc = "returned"
     /\ calls[2].pc = "returned")
    => /\ calls[1].amountIn <= calls[2].amountIn
       /\ Last(calls[1].amounts) <= Last(calls[2].amounts)

\* A two-hop path was quoted for two amounts and the larger amount was
\* quoted strictly higher.
C20_Witness ==
    /\ Len(calls) = 2
    /\ calls[1].pc = "returned"
    /\ calls[2].pc = "returned"
    /\ Len(calls[1].path) = 3
    /\ calls[1].amountIn < calls[2].amountIn
    /\ 0 < Last(calls[1].amounts)
    /\ Last(calls[1].amounts) < Last(calls[2].amounts)

-----------------------------------------------------------------------------
(* GET /pool/:id *)

RECURSIVE Pow2(_)
Pow2(n) == IF n = 0 THEN 1 ELSE 2 * Pow2(n - 1)

Abs(n) == IF n < 0 THEN 0 - n ELSE n

\* The exponent of the unit in the last place of a number of magnitude m: 0
\* while m fits the significand.
RECURSIVE UlpExponent(_)
UlpExponent(m) == IF m < Pow2(MantissaBits) THEN 0 ELSE 1 + UlpExponent(m \div 2)

\* The JavaScript number nearest to the integer n, ties to even.
RoundToNumber(n) ==
    LET m == Abs(n)
        unit == Pow2(UlpExponent(m))
        q == m \div unit
        r == m % unit
        up == 2 * r > unit \/ (2 * r = unit /\ q % 2 = 1)
        rounded == (IF up THEN q + 1 ELSE q) * unit
    IN  IF n < 0 THEN 0 - rounded ELSE rounded

\* Number(str) for a stored amount string.
Number(str) == RoundToNumber(Signed(str))

\* acc + x on JavaScript numbers.
NumberAdd(acc, x) == RoundToNumber(acc + x)

\* rows.reduce((acc, l) => acc + Number(l[field]), 0)
RECURSIVE ReduceAmounts(_, _, _)
ReduceAmounts(rows, field, acc) ==
    IF rows = <<>> THEN acc
    ELSE ReduceAmounts(Tail(rows), field, NumberAdd(acc, Number(Head(rows)[field])))

\* prisma.pool.findUnique({ where: { id }, include: { liquidity: true, ... } }):
\* <<row with its Liquidity rows>>, or <<>> for null.
findPoolById(id) ==
    IF \E j \in 1..Len(pools) : pools[j].id = id
    THEN <<[id |-> id, liquidity |-> SelectSeq(liquidity, LAMBDA l : l.poolId = id)]>>
    ELSE <<>>

\* The answer of GET /pool/:id.
PoolDetails(id) ==
    LET pool == findPoolById(id)
    IN  IF pool = <<>> THEN [status |-> 404]
        ELSE LET reserveA == ReduceAmounts(pool[1].liquidity, "amountA", 0)
                 reserveB == ReduceAmounts(pool[1].liquidity, "amountB", 0)
             IN  [status |-> 200,
                  reserves |-> [reserveA |-> reserveA, reserveB |-> reserveB],
                  tvl |-> NumberAdd(reserveA, reserveB)]

\* The handler of GET /pool/:id answers the request.
GetPool ==
    /\ req.kind = "pool"
    /\ rpc = "start"
    /\ result' = PoolDetails(req.id)
    /\ rpc' = "done"
    /\ UNCHANGED <<req, graph, queue, visited, found, evalIdx, bestPath, bestOutput,
                   quoted, storeVars>>

\* The client asks again.
NextPoolRequest(id) ==
    /\ req.kind = "pool"
    /\ rpc = "done"
    /\ req' = [kind |-> "pool", id |-> id]
    /\ rpc' = "start"
    /\ UNCHANGED <<graph, queue, visited, found, evalIdx, bestPath, bestOutput, quoted,
                   result, storeVars>>

\* The indexer's Swap listener persists a Swap row of the pool with id
\* poolId while the server is up.
SwapPersisted(poolId, e) ==
    /\ req.kind = "pool"
    /\ e.kind = "Swap"
    /\ Len(swaps) < MaxRows
    /\ PoolFkOk(poolId)
    /\ swaps' = Append(swaps, WithId(swaps, SwapData([poolId |-> poolId, args |-> e.args])))
    /\ UNCHANGED <<routeVars, tokens, pools, liquidity>>

\* The amounts of the Mint and Burn events behind the stored Liquidity rows.
RowAmounts == {0, 1, 9}

\* The Liquidity rows the Mint and Burn listeners write for the pool with id
\* poolId, before their ids are assigned.
LiquidityData ==
    UNION {{MintData([poolId |-> p, args |-> <<a, b>>]),
            BurnData([poolId |-> p, args |-> <<a, b>>])} :
              p \in {1, 2}, a \in RowAmounts, b \in RowAmounts}

\* The store of the pool requests: the pools of the two factory pairs, and
\* any Liquidity rows of theirs.
PoolInit ==
    /\ tokens = [a \in 1..3 |-> [id |-> a, address |-> a, symbol |-> "TKN"]]
    /\ pools = [p \in 1..2 |-> [id |-> p, address |-> p,
                                 tokenAId |-> ChainPairs[p][1],
                                 tokenBId |-> ChainPairs[p][2]]]
    /\ \E n \in 0..MaxRows : \E data \in [1..n -> LiquidityData] :
          liquidity = [i \in 1..n |->
                          [f \in (DOMAIN data[i]) \cup {"id"} |->
                              IF f = "id" THEN i ELSE data[i][f]]]
    /\ swaps = <<>>
    /\ \E id \in 1..3 : req = [kind |-> "pool", id |-> id]
    /\ rpc = "start"
    /\ graph = EmptyGraph
    /\ queue = <<>>
    /\ visited = {}
    /\ found = <<>>
    /\ evalIdx = 0
    /\ bestPath = <<>>
    /\ bestOutput = 0
    /\ quoted = <<>>
    /\ result = EmptyResult
    /\ alive = FALSE
    /\ mainPc = "start"
    /\ bootPools = <<>>
    /\ listeners = <<>>
    /\ chainLog = <<>>
    /\ handlers = {}
    /\ reserves = NoPairs
    /\ calls = <<>>
    /\ factory = NewFactory

PoolNext ==
    \/ GetPool /\ UNCHANGED <<indexerVars, quoteVars>>
    \/ (\E id \in 1..3 : NextPoolRequest(id)) /\ UNCHANGED <<indexerVars, quoteVars>>
    \/ (\E id \in 1..2 : \E e \in PoolEvents : SwapPersisted(id, e))
          /\ UNCHANGED <<indexerVars, quoteVars>>

SpecPool == PoolInit /\ [][PoolNext]_vars

\* The sum of the signed amounts in `field` of the Liquidity rows of the pool
\* with id poolId.
SignedSum(poolId, field) ==
    LET rows == SelectSeq(liquidity, LAMBDA l : l.poolId = poolId)
    IN  SumSeq([i \in 1..Len(rows) |-> Signed(rows[i][field])])

\* C21: the reserves a pool request reports are the sums of the signed
\* amounts of the pool's Liquidity rows on each side and the TVL is the sum
\* of the two reserves, however many Swap rows the pool has.
C21_ReservesFromLiquidity ==
    (req.kind = "pool" /\ rpc = "done" /\ result.status = 200) =>
        /\ result.reserves.reserveA = SignedSum(req.id, "amountA")
        /\ result.reserves.reserveB = SignedSum(req.id, "amountB")
        /\ result.tvl = SignedSum(req.id, "amountA") + SignedSum(req.id, "amountB")

-----------------------------------------------------------------------------
(* GET /portfolio/:user *)

\* prisma.liquidity.findMany({ where: { provider }, include: { pool: { include:
\* { tokenA, tokenB } } } }): the user's Liquidity rows in table order, each
\* with its Pool row and the pool's two Token rows.
findManyPositions(userAddress) ==
    LET rows == SelectSeq(liquidity, LAMBDA l : l.provider = userAddress)
        PoolOf(l) == CHOOSE r \in Range(pools) : r.id = l.poolId
    IN  [i \in 1..Len(rows) |->
            [id |-> rows[i].id, poolId |-> rows[i].poolId,
             amountA |-> rows[i].amountA, amountB |-> rows[i].amountB,
             pool |-> [tokenA |-> TokenById(PoolOf(rows[i]).tokenAId),
                       tokenB |-> TokenById(PoolOf(rows[i]).tokenBId)]]]

\* const poolKey = `${pos.pool.tokenA.symbol}-${pos.pool.tokenB.symbol}`
poolKey(pos) == pos.pool.tokenA.symbol \o "-" \o pos.pool.tokenB.symbol

\* Where the group with the key is in groupedPositions (a Map keeps its keys
\* in insertion order), 0 when groupedPositions.has(key) is false.
GroupIndex(groups, key) ==
    IF \E g \in 1..Len(groups) : groups[g].pool = key
    THEN CHOOSE g \in 1..Len(groups) : groups[g].pool = key
    ELSE 0

\* One call of the positions.forEach callback.
AddPosition(groups, pos) ==
    LET key == poolKey(pos)
        withGroup == IF GroupIndex(groups, key) = 0
                     THEN Append(groups, [pool |-> key, poolId |-> pos.poolId,
                                          totalAmountA |-> 0, totalAmountB |-> 0,
                                          positions |-> <<>>])
                     ELSE groups
        g == GroupIndex(withGroup, key)
    IN  [withGroup EXCEPT
            ![g] = [withGroup[g] EXCEPT
                       !.totalAmountA = NumberAdd(withGroup[g].totalAmountA,
                                                  Number(pos.amountA)),
                       !.totalAmountB = NumberAdd(withGroup[g].totalAmountB,
                                                  Number(pos.amountB)),
                       !.positions = Append(withGroup[g].positions, pos.id)]]

RECURSIVE GroupPositions(_, _)
GroupPositions(groups, positions) ==
    IF positions = <<>> THEN groups
    ELSE GroupPositions(AddPosition(groups, Head(positions)), Tail(positions))

\* The answer of GET /portfolio/:user: the groups, formatted.
Portfolio(userAddress) ==
    LET groups == GroupPositions(<<>>, findManyPositions(userAddress))
    IN  [g \in 1..Len(groups) |->
            [pool |-> groups[g].pool, poolId |-> groups[g].poolId,
             liquidityProvided |-> [tokenA |-> ToString(groups[g].totalAmountA),
                                    tokenB |-> ToString(groups[g].totalAmountB)],
             positionsCount |-> Len(groups[g].positions)]]

\* The handler of GET /portfolio/:user answers the request.
GetPortfolio ==
    /\ req.kind = "portfolio"
    /\ rpc = "start"
    /\ result' = Portfolio(req.user)
    /\ rpc' = "done"
    /\ UNCHANGED <<req, graph, queue, visited, found, evalIdx, bestPath, bestOutput,
                   quoted, storeVars>>

\* The accounts that provide liquidity and ask for their portfolio.
Users == {Sender, "0xT"}

\* The client asks for the portfolio of another account.
NextPortfolioRequest(userAddress) ==
    /\ req.kind = "portfolio"
    /\ rpc = "done"
    /\ req' = [kind |-> "portfolio", user |-> userAddress]
    /\ rpc' = "start"
    /\ UNCHANGED <<graph, queue, visited, found, evalIdx, bestPath, bestOutput, quoted,
                   result, storeVars>>

\* The Liquidity rows the Mint and Burn listeners write, for either provider.
PositionData ==
    {[d EXCEPT !.provider = u] : d \in LiquidityData, u \in Users}

\* The store of the portfolio requests: the pools of the two factory pairs,
\* their three tokens with whatever symbols their contracts answered with
\* (the store does not keep symbols distinct), and any Liquidity rows of the
\* two pools.
PortfolioInit ==
    /\ \E sym \in [1..3 -> TokenMeta] :
          tokens = [a \in 1..3 |-> [id |-> a, address |-> a, symbol |-> sym[a]]]
    /\ pools = [p \in 1..2 |-> [id |-> p, address |-> p,
                                 tokenAId |-> ChainPairs[p][1],
                                 tokenBId |-> ChainPairs[p][2]]]
    /\ \E n \in 0..MaxRows : \E data \in [1..n -> PositionData] :
          liquidity = [i \in 1..n |->
                          [f \in (DOMAIN data[i]) \cup {"id"} |->
                              IF f = "id" THEN i ELSE data[i][f]]]
    /\ swaps = <<>>
    /\ \E u \in Users : req = [kind |-> "portfolio", user |-> u]
    /\ rpc = "start"
    /\ graph = EmptyGraph
    /\ queue = <<>>
    /\ visited = {}
    /\ found = <<>>
    /\ evalIdx = 0
    /\ bestPath = <<>>
    /\ bestOutput = 0
    /\ quoted = <<>>
    /\ result = EmptyResult
    /\ alive = FALSE
    /\ mainPc = "start"
    /\ bootPools = <<>>
    /\ listeners = <<>>
    /\ chainLog = <<>>
    /\ handlers = {}
    /\ reserves = NoPairs
    /\ calls = <<>>
    /\ factory = NewFactory

PortfolioNext ==
    \/ GetPortfolio /\ UNCHANGED <<indexerVars, quoteVars>>
    \/ (\E u \in Users : NextPortfolioRequest(u)) /\ UNCHANGED <<indexerVars, quoteVars>>

SpecPortfolio == PortfolioInit /\ [][PortfolioNext]_vars

\* The Liquidity rows of the user in the pool with id poolId.
PositionsOf(userAddress, poolId) ==
    SelectSeq(liquidity, LAMBDA l : l.provider = userAddress /\ l.poolId = poolId)

\* The sum of the signed amounts in `field` of those rows.
PositionSum(userAddress, poolId, field) ==
    LET rows == PositionsOf(userAddress, poolId)
    IN  SumSeq([i \in 1..Len(rows) |-> Signed(rows[i][field])])

\* C33: a portfolio has one group for each pool the user has positions in,
\* no group holds positions of two pools, and a group's totals are the sums
\* of the signed amounts of the user's positions in the group's pool.
C33_PortfolioGroupedByPool ==
    (req.kind = "portfolio" /\ rpc = "done") =>
        /\ \A q \in 1..Len(pools) :
              PositionsOf(req.user, pools[q].id) # <<>>
              => \E g \in 1..Len(result) : result[g].poolId = pools[q].id
        /\ \A g \in 1..Len(result) :
              /\ result[g].positionsCount = Len(PositionsOf(req.user, result[g].poolId))
              /\ Signed(result[g].liquidityProvided.tokenA)
                    = PositionSum(req.user, result[g].poolId, "amountA")
              /\ Signed(result[g].liquidityProvided.tokenB)
                    = PositionSum(req.user, result[g].poolId, "amountB")

-----------------------------------------------------------------------------
(* AMMFactory.createPair *)

\* Largest number of createPair calls made on the factory.
MaxCreates == 4

\* address(newPair) of the n-th pair the factory deploys: an address the
\* chain has not given out before.
DeployedAddress(n) == 10 + n

\* A call createPair(tokenA, tokenB) that has ended: pc is "returned" or
\* "reverted", pair is the address returned.
CreateCall(tokenA, tokenB, pc, pair) ==
    [fn |-> "createPair", tokenA |-> tokenA, tokenB |-> tokenB, pc |-> pc, pair |-> pair]

\* Mutant of createPair: the reverse lookup is not written.
createPairOneWay(tokenA, tokenB) ==
    /\ Len(calls) < MaxCreates
    /\ LET token0 == IF tokenA < tokenB THEN tokenA ELSE tokenB
           token1 == IF tokenA < tokenB THEN tokenB ELSE tokenA
           pair == DeployedAddress(Len(factory.allPairs) + 1)
       IN  IF tokenA = tokenB \/ factory.getPair[token0][token1] # ZeroAddress
           THEN /\ calls' = Append(calls, CreateCall(tokenA, tokenB, "reverted", ZeroAddress))
                /\ UNCHANGED <<factory, reserves>>
           ELSE /\ factory' = [getPair |-> [factory.getPair EXCEPT ![token0][token1] = pair],
                               allPairs |-> Append(factory.allPairs, pair)]
                /\ reserves' = [pr \in (DOMAIN reserves) \cup {<<token0, token1>>} |->
                                   IF pr \in DOMAIN reserves THEN reserves[pr] ELSE <<0, 0>>]
                /\ calls' = Append(calls, CreateCall(tokenA, tokenB, "returned", pair))

\* createPair(tokenA, tokenB), a transaction: a failed require reverts it
\* and leaves the storage as it was; otherwise the pair is deployed with
\* empty reserves, entered into getPair in both directions and pushed to
\* allPairs.
createPair(tokenA, tokenB) ==
    /\ Len(calls) < MaxCreates
    /\ LET token0 == IF tokenA < tokenB THEN tokenA ELSE tokenB
           token1 == IF tokenA < tokenB THEN tokenB ELSE tokenA
           pair == DeployedAddress(Len(factory.allPairs) + 1)
       IN  IF tokenA = tokenB \/ factory.getPair[token0][token1] # ZeroAddress
           THEN /\ calls' = Append(calls, CreateCall(tokenA, tokenB, "reverted", ZeroAddress))
                /\ UNCHANGED <<factory, reserves>>
           ELSE /\ factory' = [getPair |-> [factory.getPair EXCEPT ![token0][token1] = pair,
                                                                   ![token1][token0] = pair],
                               allPairs |-> Append(factory.allPairs, pair)]
                /\ reserves' = [pr \in (DOMAIN reserves) \cup {<<token0, token1>>} |->
                                   IF pr \in DOMAIN reserves THEN reserves[pr] ELSE <<0, 0>>]
                /\ calls' = Append(calls, CreateCall(tokenA, tokenB, "returned", pair))

\* The factory has just been deployed.
FactoryInit ==
    /\ factory = NewFactory
    /\ reserves = NoPairs
    /\ calls = <<>>
    /\ tokens = <<>>
    /\ pools = <<>>
    /\ liquidity = <<>>
    /\ swaps = <<>>
    /\ alive = FALSE
    /\ mainPc = "start"
    /\ bootPools = <<>>
    /\ listeners = <<>>
    /\ chainLog = <<>>
    /\ handlers = {}
    /\ req = [kind |-> "none", tokenA |-> 1, tokenB |-> 1, maxHops |-> NaN, amount |-> 1]
    /\ rpc = "idle"
    /\ graph = EmptyGraph
    /\ queue = <<>>
    /\ visited = {}
    /\ found = <<>>
    /\ evalIdx = 0
    /\ bestPath = <<>>
    /\ bestOutput = 0
    /\ quoted = <<>>
    /\ result = EmptyResult

FactoryNext ==
    (\E tokenA, tokenB \in FactoryTokens : createPair(tokenA, tokenB))
       /\ UNCHANGED <<storeVars, indexerVars, routeVars>>

SpecFactory == FactoryInit /\ [][FactoryNext]_vars

\* The factory's storage holds at most one pair for two tokens: getPair is
\* the same in both directions, no token is paired with itself, every pair
\* in getPair is in allPairs, and allPairs holds each of its pairs once, one
\* for each two tokens that have a pair.
OnePairPerTokenPair ==
    /\ \A a, b \in FactoryTokens : factory.getPair[a][b] = factory.getPair[b][a]
    /\ \A a \in FactoryTokens : factory.getPair[a][a] = ZeroAddress
    /\ \A a, b \in FactoryTokens :
          factory.getPair[a][b] # ZeroAddress
          => \E i \in 1..Len(factory.allPairs) : factory.allPairs[i] = factory.getPair[a][b]
    /\ \A i, j \in 1..Len(factory.allPairs) :
          factory.allPairs[i] = factory.allPairs[j] => i = j
    /\ Len(factory.allPairs)
          = Cardinality({{pr[1], pr[2]} :
                            pr \in {q \in FactoryTokens \X FactoryTokens :
                                       factory.getPair[q[1]][q[2]] # ZeroAddress}})

\* A createPair call for two tokens that have a pair, asked for in either
\* order, reverts; and a call that reverts leaves the factory's storage as
\* it was.
SecondCreateReverts ==
    Len(calls') = Len(calls) + 1 =>
        LET c == Last(calls')
        IN  /\ (c.tokenA # c.tokenB /\ factory.getPair[c.tokenB][c.tokenA] # ZeroAddress)
                  => c.pc = "reverted"
            /\ c.pc = "reverted" => factory' = factory

\* C39: after any sequence of createPair calls the factory holds at most one
\* pair for two tokens (getPair agrees in both directions and allPairs holds
\* each pair once), and a second createPair for the same two tokens, in
\* either order, reverts and leaves the storage unchanged.
C39_OnePairPerTokenPair == []OnePairPerTokenPair /\ [][SecondCreateReverts]_vars

\* A pair was created for two tokens, a later call for the same tokens in
\* the other order reverted, and a pair for two other tokens was created
\* after that.
C39_Witness ==
    \E i, j, k \in 1..Len(calls) :
        /\ i < j /\ j < k
        /\ calls[i].pc = "returned"
        /\ calls[j].pc = "reverted"
        /\ calls[j].tokenA = calls[i].tokenB
        /\ calls[j].tokenB = calls[i].tokenA
        /\ calls[k].pc = "returned"
        /\ Len(factory.allPairs) = 2

=============================================================================
